---- MODULE Spec2Model ----
(***************************************************************************)
(* Job lifecycle and execution tracking of insight_hub's scheduler app.    *)
(*                                                                         *)
(* The database rows (ScheduledJob, JobExecutionLog, PeriodicTask), the    *)
(* Django cache and the in-memory model instances held by each running     *)
(* Celery task or HTTP request are the state.  A Celery task or a request  *)
(* is a process whose steps are its database and cache operations, in the  *)
(* order of the code; every step is atomic, the steps of different         *)
(* processes interleave.                                                   *)
(***************************************************************************)
EXTENDS Integers, Sequences, FiniteSets, TLC

VARIABLES
    jobs,       \* ScheduledJob rows: id -> row
    nextJobId,  \* the next auto-increment id of ScheduledJob
    ptasks,     \* PeriodicTask rows (the external handles): id -> row
    nextTaskId, \* the next auto-increment id of PeriodicTask
    logs,       \* JobExecutionLog rows: id -> row
    nextLogId,  \* the next auto-increment id of JobExecutionLog
    cache,      \* Django cache: user -> cached active-job count, or None
    queue,      \* execute_job_immediately messages sent with .delay()
    now,        \* timezone.now()
    worker,     \* Celery worker processes
    client      \* HTTP request handlers

vars == <<jobs, nextJobId, ptasks, nextTaskId, logs, nextLogId, cache, queue,
          now, worker, client>>

----------------------------------------------------------------------------
(* Bounds of the model *)

\* job rows and execution logs ever created, and execute_job_immediately
\* messages waiting, under Spec
MaxJobs == 1
MaxLogs == 2
MaxQueue == 1
\* execution logs ever created under SpecFailures (one job)
MaxLogsFailures == 4
\* execution logs ever created under SpecDispatch (one job)
MaxLogsDispatch == 3
\* job rows ever created under SpecSeq
MaxJobsSeq == 6
\* job rows ever created under SpecCreate
MaxJobsCreate == 8
\* job rows ever created under SpecPause
MaxJobsPause == 5
MaxJobsOrphans == 2
MaxJobsCron == 1
\* execution logs ever created under SpecLimit
MaxLogsLimit == 3
\* execution logs in the runs of execute-now with custom parameters
MaxLogsCustom == 2

----------------------------------------------------------------------------
(* Values *)

\* Python None / SQL NULL in a nullable integer, timestamp or foreign key
None == -1

Workers == {"w1", "w2"}
Clients == {"c1", "c2"}
Users == {"alice", "root"}

is_superuser(u) == u = "root"

STATUS_CHOICES == {"active", "inactive", "paused"}

MAX_JOBS_NORMAL_USER == 5
MAX_JOBS_SUPERUSER == 100

\* ScheduledJob.max_failures, default
DefaultMaxFailures == 3

\* ScheduledJob.parameters (a JSON object) as the create request gives it, the
\* custom parameters of an execute-now request, and dict.update
StoredParams == [to |-> "a"]
CustomParams == [to |-> "b"]
NoParams == [to |-> "-"]
update(params, custom) == [k \in DOMAIN params |-> IF k \in DOMAIN custom THEN custom[k] ELSE params[k]]

\* ScheduledJob.task_definition of the jobs whose parameters are not looked at
DefaultDefinition == "notify"

\* a JSON value of a parameter: its Python type and, for a string, its
\* characters
PyStr(chars) == [py |-> "str", v |-> chars]
PyInt(digits) == [py |-> "int", v |-> digits]
PyBool(word) == [py |-> "bool", v |-> word]

\* str.isdigit, '@' in value, value in ['true', 'false', 'True', 'False']
Digits == {"0", "1", "2", "3", "4", "5", "6", "7", "8", "9"}
isdigit(chars) == chars # <<>> /\ \A i \in DOMAIN chars : chars[i] \in Digits
HasAt(chars) == \E i \in DOMAIN chars : chars[i] = "@"
BoolWords == {<<"t", "r", "u", "e">>, <<"f", "a", "l", "s", "e">>,
              <<"T", "r", "u", "e">>, <<"F", "a", "l", "s", "e">>}

\* validators.validate_parameter_type for the types string, integer, boolean
\* and email, and for the types of the last branch (date, datetime, file)
validate_parameter_type(value, expected_type) ==
    CASE expected_type = "string" -> value.py = "str"
      [] expected_type = "integer" ->
            value.py \in {"int", "bool"} \/ (value.py = "str" /\ isdigit(value.v))
      [] expected_type = "boolean" ->
            value.py = "bool" \/ (value.py = "str" /\ value.v \in BoolWords)
      [] expected_type = "email" -> value.py = "str" /\ HasAt(value.v)
      [] OTHER -> TRUE

\* the TaskParameter rows of the task definitions, in the order of
\* parameter_name
TaskParameter(name, type, required, active) ==
    [parameter_name |-> name, parameter_type |-> type, is_required |-> required,
     is_active |-> active]

taskparameter_set(task_definition) ==
    CASE task_definition = "send_email" ->
            <<TaskParameter("legacy", "integer", TRUE, FALSE),
              TaskParameter("recipient_email", "email", TRUE, TRUE),
              TaskParameter("subject", "string", FALSE, TRUE)>>
      [] task_definition = "cleanup" ->
            <<TaskParameter("days", "integer", TRUE, TRUE),
              TaskParameter("until", "date", FALSE, TRUE)>>
      [] OTHER -> <<>>

\* TaskDefinition.get_parameters
IsActive(param) == param.is_active
get_parameters(task_definition) == SelectSeq(taskparameter_set(task_definition), IsActive)

\* the two messages of the validation
Missing(name) == [parameter |-> name, error |-> "is missing"]
InvalidType(name) == [parameter |-> name, error |-> "has invalid type"]

\* the loop of ScheduledJobCreateSerializer.validate (lines 96-105), of
\* ScheduledJobSerializer.validate (lines 57-66) and of
\* ScheduledJob.validate_parameters, stopping at the first error
RECURSIVE param_errors_FirstOnly(_, _)
param_errors_FirstOnly(task_params, parameters) ==
    IF task_params = <<>> THEN <<>>
    ELSE LET param == Head(task_params)
             param_name == param.parameter_name IN
         IF param.is_required /\ param_name \notin DOMAIN parameters
         THEN <<Missing(param_name)>>
         ELSE IF /\ param_name \in DOMAIN parameters
                 /\ ~validate_parameter_type(parameters[param_name], param.parameter_type)
         THEN <<InvalidType(param_name)>>
         ELSE param_errors_FirstOnly(Tail(task_params), parameters)

\* the loop of ScheduledJobCreateSerializer.validate (lines 96-105), of
\* ScheduledJobSerializer.validate (lines 57-66) and of
\* ScheduledJob.validate_parameters: the errors list
RECURSIVE param_errors(_, _)
param_errors(task_params, parameters) ==
    IF task_params = <<>> THEN <<>>
    ELSE LET param == Head(task_params)
             param_name == param.parameter_name
             missing == IF param.is_required /\ param_name \notin DOMAIN parameters
                        THEN <<Missing(param_name)>> ELSE <<>>
             invalid == IF /\ param_name \in DOMAIN parameters
                           /\ ~validate_parameter_type(parameters[param_name],
                                                       param.parameter_type)
                        THEN <<InvalidType(param_name)>> ELSE <<>> IN
         missing \o invalid \o param_errors(Tail(task_params), parameters)

\* a cron expression is the list value.strip().split() gives: its fields, each
\* the sequence of its characters; the empty value is <<>>

\* str.split(sep) and int(text) of a text of decimal digits; int raises
\* ValueError for every other text of the model's characters
RECURSIVE split(_, _)
split(chars, sep) ==
    IF \A i \in DOMAIN chars : chars[i] # sep
    THEN <<chars>>
    ELSE LET i == CHOOSE k \in DOMAIN chars :
                      chars[k] = sep /\ \A m \in 1..(k - 1) : chars[m] # sep IN
         <<SubSeq(chars, 1, i - 1)>> \o split(SubSeq(chars, i + 1, Len(chars)), sep)

DigitValue(d) ==
    CASE d = "0" -> 0 [] d = "1" -> 1 [] d = "2" -> 2 [] d = "3" -> 3 [] d = "4" -> 4
      [] d = "5" -> 5 [] d = "6" -> 6 [] d = "7" -> 7 [] d = "8" -> 8 [] d = "9" -> 9

RECURSIVE int(_)
int(chars) ==
    IF chars = <<>> THEN 0
    ELSE 10 * int(SubSeq(chars, 1, Len(chars) - 1)) + DigitValue(chars[Len(chars)])

Contains(chars, sep) == \E i \in DOMAIN chars : chars[i] = sep

\* a ValidationError of the cron validators: its message and the field the
\* message names ("" when it names none), and no error
CronError(text, field_name) ==
    [parameter |-> "cron_expression", error |-> text, field |-> field_name]
NoCronError == CronError("", "")

\* the first value of a comma list that is not an integer of the range
FirstBadValue(values, min_val, max_val) ==
    LET bad == {i \in DOMAIN values :
                    ~isdigit(values[i]) \/ int(values[i]) < min_val
                                        \/ int(values[i]) > max_val} IN
    IF bad = {} THEN 0 ELSE CHOOSE i \in bad : \A k \in bad : i <= k

\* _validate_cron_field: '*', then the range, the step, the list and the
\* single value, in this order; the step branch reads parts[1] only
_validate_cron_field(field_value, min_val, max_val, field_name) ==
    IF field_value = <<"*">> THEN NoCronError
    ELSE IF Contains(field_value, "-")
    THEN LET parts == split(field_value, "-") IN
         IF Len(parts) # 2 THEN CronError("Invalid range format", field_name)
         ELSE IF ~isdigit(parts[1]) \/ ~isdigit(parts[2])
         THEN CronError("Invalid range values", field_name)
         ELSE IF \/ int(parts[1]) < min_val
                 \/ int(parts[2]) > max_val
                 \/ int(parts[1]) > int(parts[2])
         THEN CronError("Invalid range", field_name)
         ELSE NoCronError
    ELSE IF Contains(field_value, "/")
    THEN LET parts == split(field_value, "/") IN
         IF Len(parts) # 2 THEN CronError("Invalid step format", field_name)
         ELSE IF ~isdigit(parts[2]) THEN CronError("Invalid step value", field_name)
         ELSE IF int(parts[2]) <= 0 THEN CronError("Step value must be positive", field_name)
         ELSE NoCronError
    ELSE IF Contains(field_value, ",")
    THEN LET values == split(field_value, ",")
             i == FirstBadValue(values, min_val, max_val) IN
         IF i = 0 THEN NoCronError
         ELSE IF ~isdigit(values[i]) THEN CronError("Invalid value", field_name)
         ELSE CronError("Value out of range", field_name)
    ELSE IF ~isdigit(field_value) THEN CronError("Invalid value", field_name)
    ELSE IF int(field_value) < min_val \/ int(field_value) > max_val
    THEN CronError("Value out of range", field_name)
    ELSE NoCronError

\* _validate_cron_combinations with every month taken as a month of 30 days
_validate_cron_combinations_EveryMonth(day, month, day_of_week) ==
    IF isdigit(month) /\ isdigit(day) /\ int(day) > 30
    THEN [parameter |-> "cron_expression", error |-> "Month has maximum 30 days", field |-> ""]
    ELSE [parameter |-> "cron_expression", error |-> "", field |-> ""]

\* _validate_cron_combinations: a day that is an integer beyond the length of
\* the month, when the month is one of short_months
short_months == {<<"2">>, <<"4">>, <<"6">>, <<"9">>, <<"1", "1">>}
_validate_cron_combinations(day, month, day_of_week) ==
    IF month \in short_months /\ day # <<"*">> /\ isdigit(day)
    THEN IF month = <<"2">> /\ int(day) > 29
         THEN CronError("February has maximum 29 days", "")
         ELSE IF month # <<"2">> /\ int(day) > 30
         THEN CronError("Month has maximum 30 days", "")
         ELSE NoCronError
    ELSE NoCronError

\* croniter(value, ...): the constructor raises for an expression outside the
\* cron grammar. Each field is a comma list of items base or base/step, the
\* base '*', an integer or a range of integers of the field's range, the step
\* a positive integer; day_of_week takes 7 for Sunday. Releases differ on a
\* range a-b with a > b, which the lenient ones take
RANGES == <<[lo |-> 0, hi |-> 59], [lo |-> 0, hi |-> 23], [lo |-> 1, hi |-> 31],
            [lo |-> 1, hi |-> 12], [lo |-> 0, hi |-> 7], [lo |-> 0, hi |-> 59]>>

croniter_number(text, range) ==
    isdigit(text) /\ int(text) >= range.lo /\ int(text) <= range.hi

croniter_base(base, range, lenient) ==
    \/ base = <<"*">>
    \/ croniter_number(base, range)
    \/ LET ends == split(base, "-") IN
       /\ Len(ends) = 2
       /\ croniter_number(ends[1], range)
       /\ croniter_number(ends[2], range)
       /\ (lenient \/ int(ends[1]) <= int(ends[2]))

croniter_item(item, range, lenient) ==
    LET parts == split(item, "/") IN
    /\ Len(parts) <= 2
    /\ croniter_base(parts[1], range, lenient)
    /\ Len(parts) = 2 => isdigit(parts[2]) /\ int(parts[2]) >= 1

croniter(value, lenient) ==
    /\ Len(value) \in {5, 6}
    /\ \A i \in DOMAIN value :
          LET items == split(value[i], ",") IN
          \A k \in DOMAIN items : croniter_item(items[k], RANGES[i], lenient)

\* validate_cron_expression: the error it raises, or none
FirstError(errors) ==
    LET raised == {i \in DOMAIN errors : errors[i] # NoCronError} IN
    IF raised = {} THEN NoCronError
    ELSE errors[CHOOSE i \in raised : \A k \in raised : i <= k]

validate_cron_expression(value, lenient) ==
    IF value = <<>> THEN CronError("Cron expression cannot be empty", "")
    ELSE IF Len(value) # 5 THEN CronError("Cron expression must have exactly 5 fields", "")
    ELSE IF ~croniter(value, lenient) THEN CronError("Invalid cron expression format", "")
    ELSE FirstError(<<_validate_cron_field(value[1], 0, 59, "minute"),
                      _validate_cron_field(value[2], 0, 23, "hour"),
                      _validate_cron_field(value[3], 1, 31, "day"),
                      _validate_cron_field(value[4], 1, 12, "month"),
                      _validate_cron_field(value[5], 0, 6, "day_of_week"),
                      _validate_cron_combinations(value[3], value[4], value[5])>>)

\* the seconds of a minute at which an expression fires: those of its sixth
\* field, second 0 when it has five
Stepped(lo, hi, step) == {s \in lo..hi : (s - lo) % step = 0}
item_seconds(item) ==
    LET parts == split(item, "/")
        ends == split(parts[1], "-")
        lo == IF parts[1] = <<"*">> THEN 0 ELSE int(ends[1])
        hi == IF parts[1] = <<"*">> THEN 59
              ELSE IF Len(ends) = 2 THEN int(ends[2])
              ELSE IF Len(parts) = 2 THEN 59 ELSE lo IN
    Stepped(lo, hi, IF Len(parts) = 2 THEN int(parts[2]) ELSE 1)
fire_seconds(value) ==
    IF Len(value) = 6
    THEN LET items == split(value[6], ",") IN
         UNION {item_seconds(items[k]) : k \in DOMAIN items}
    ELSE {0}

\* cron.get_next twice from a now whose second of the minute is sec, and
\* next2 - next1 in seconds, for an expression that fires in every minute; an
\* expression that skips minutes has a difference at least as long
Least(times) == CHOOSE t \in times : \A u \in times : t <= u
time_diff(value, sec) ==
    LET times == {s + 60 * m : s \in fire_seconds(value), m \in 0..2}
        next1 == Least({t \in times : t > sec})
        next2 == Least({t \in times : t > next1}) IN
    next2 - next1

\* validate_cron_frequency: what the try block raises, and the error the
\* function raises after its handler `except Exception: pass`
ExceptionSubclasses == {"CroniterBadCronError", "ValidationError"}
frequency_raised(value, lenient, sec) ==
    IF ~croniter(value, lenient) THEN "CroniterBadCronError"
    ELSE IF time_diff(value, sec) < 60 THEN "ValidationError"
    ELSE ""
CronTooFrequent == CronError("Cron expression is too frequent", "")
validate_cron_frequency(value, lenient, sec) ==
    IF value = <<>> THEN NoCronError
    ELSE IF frequency_raised(value, lenient, sec) \in ExceptionSubclasses THEN NoCronError
    ELSE IF frequency_raised(value, lenient, sec) = "ValidationError" THEN CronTooFrequent
    ELSE NoCronError

\* run_validators of the serializer field cron_expression, which takes the
\* validators of the model field: the errors of both are collected
IsCronError(e) == e # NoCronError
run_validators(value, lenient, sec) ==
    SelectSeq(<<validate_cron_expression(value, lenient),
                validate_cron_frequency(value, lenient, sec)>>, IsCronError)

\* the second of the minute of datetime.now()
Seconds == {0, 45}

\* ScheduledJob.cron_expression as the create request gives it, and as an update
\* request changes it: "0 9 * * *" and "0 10 * * *"
StoredCron == <<<<"0">>, <<"9">>, <<"*">>, <<"*">>, <<"*">>>>
OtherCron == <<<<"0">>, <<"1", "0">>, <<"*">>, <<"*">>, <<"*">>>>

\* the data of a request: the fields it gives, and their values
Data(fields, task_definition, parameters) ==
    [fields |-> fields, task_definition |-> task_definition, parameters |-> parameters,
     cron_expression |-> StoredCron]
NoData == Data({}, DefaultDefinition, <<>>)
WithCron(data, value) ==
    [data EXCEPT !.fields = @ \cup {"cron_expression"}, !.cron_expression = value]

\* validate of both serializers: attrs.get('task_definition'),
\* attrs.get('parameters', {}), and the errors when a task definition is given
validate(attrs) ==
    IF "task_definition" \in attrs.fields
    THEN param_errors(get_parameters(attrs.task_definition),
                      IF "parameters" \in attrs.fields THEN attrs.parameters ELSE <<>>)
    ELSE <<>>

\* serializer.is_valid without the validators of cron_expression
serializer_errors_NoCronValidators(attrs, lenient, sec) ==
    IF "task_definition" \in attrs.fields
    THEN param_errors(get_parameters(attrs.task_definition),
                      IF "parameters" \in attrs.fields THEN attrs.parameters ELSE <<>>)
    ELSE <<>>

\* serializer.is_valid: the errors of the fields (run_validation of
\* cron_expression, before validate_cron_expression of the serializer, which
\* repeats the first validator), and the errors of validate when no field has
\* one
serializer_errors(attrs, lenient, sec) ==
    LET field_errors == IF "cron_expression" \in attrs.fields
                        THEN run_validators(attrs.cron_expression, lenient, sec)
                        ELSE <<>> IN
    IF field_errors # <<>> THEN field_errors ELSE validate(attrs)

\* ScheduledJob field defaults, as serializer.save(user=...) of the create
\* serializer (fields task_definition, cron_expression, parameters) stores them
NewJob(u) ==
    [user |-> u, cron_expression |-> StoredCron,
     is_active |-> TRUE, status |-> "active", celery_task |-> None,
     last_run |-> None, next_run |-> None, max_executions |-> None,
     execution_count |-> 0, max_failures |-> DefaultMaxFailures,
     consecutive_failures |-> 0, parameters |-> StoredParams,
     task_definition |-> DefaultDefinition]

\* the instance a process holds before it has fetched one
NoInstance == [NewJob("alice") EXCEPT !.is_active = FALSE, !.status = "inactive"]

\* JobExecutionLog field defaults, JobExecutionLog.objects.create(scheduled_job, execution_time)
NewLog(j, t) ==
    [scheduled_job |-> j, status |-> "pending", execution_time |-> t,
     started_at |-> None, completed_at |-> None, duration |-> None,
     error_message |-> "", celery_task_id |-> None]

\* task ids (uuids): self.request.id of a task the beat scheduler sent, and
\* result.id of execute_job_immediately.delay
BeatTaskId == 1
NowTaskId == 2

\* str(e) of the exception a task function raises
RaisedError == "e"

\* the task name of the PeriodicTask rows of this system
DispatchTask == "scheduler.tasks.execute_scheduled_job"

\* PeriodicTask row as CeleryTaskService.create_periodic_task creates it:
\* task = 'scheduler.tasks.execute_scheduled_job', args = [scheduled_job.id],
\* crontab from the job's cron parts, enabled = is_active
NewPeriodicTask(j, job) ==
    [args |-> j, crontab |-> job.cron_expression, enabled |-> job.is_active,
     task |-> DispatchTask]

\* a PeriodicTask row of django_celery_beat that runs another task than the
\* dispatch task and belongs to no job
ForeignTask ==
    [args |-> None, crontab |-> StoredCron, enabled |-> TRUE, task |-> "other"]

\* a worker: pc, the scheduled_job_id argument, the ScheduledJob instance and
\* the execution log it holds, the task's return status; for
\* execute_job_immediately also its own instance (outer), whether custom
\* parameters were given and original_params; for sync_scheduled_jobs the
\* instances of the queryset it still has to go through (todo); the id of the
\* task the runner gave the worker (task_id) and self.request.id inside
\* execute_scheduled_job (request_id)
IdleWorker == [pc |-> "idle", job |-> None, snap |-> NoInstance, log |-> None,
               ret |-> "none", imm |-> FALSE, outer |-> NoInstance,
               orig |-> NoParams, todo |-> <<>>, count |-> 0,
               completed_at |-> None, task_id |-> None, request_id |-> None]

\* a change of one writable field of ScheduledJobSerializer (a PATCH body)
NoPatch == [field |-> "none", flag |-> FALSE, text |-> "", num |-> 0, cron |-> <<>>]
SetFlag(f, b) == [NoPatch EXCEPT !.field = f, !.flag = b]
SetText(f, s) == [NoPatch EXCEPT !.field = f, !.text = s]
SetNum(f, n) == [NoPatch EXCEPT !.field = f, !.num = n]
SetCron(value) == [NoPatch EXCEPT !.field = "cron_expression", !.cron = value]

\* a request handler: pc, the action, request.user, the pk of the URL, the
\* instance get_object or serializer.save returned, the request body (patch,
\* custom), the PeriodicTask created and the response status
IdleClient == [pc |-> "idle", op |-> "none", user |-> "alice", job |-> None,
               snap |-> NoInstance, patch |-> NoPatch, custom |-> FALSE,
               task |-> None, ret |-> "none", data |-> NoData, errors |-> <<>>,
               task_id |-> None]

----------------------------------------------------------------------------
(* ScheduledJob methods *)

\* Python truthiness of a nullable integer: None and 0 are falsy
Truthy(n) == n # None /\ n # 0

can_execute_AsClaimed(job) ==
    /\ job.is_active /\ job.status = "active"
    /\ ~(job.max_executions # None /\ job.execution_count >= job.max_executions)
    /\ job.consecutive_failures < job.max_failures

can_execute_NoFailureCheck(job) ==
    /\ ~(~job.is_active \/ job.status # "active")
    /\ ~(Truthy(job.max_executions) /\ job.execution_count >= job.max_executions)

can_execute(job) ==
    /\ ~(~job.is_active \/ job.status # "active")
    /\ ~(Truthy(job.max_executions) /\ job.execution_count >= job.max_executions)
    /\ ~(job.consecutive_failures >= job.max_failures)

\* CronService.get_next_run_time: the croniter result, a fire time after now, or
\* None when croniter raises (the except branch)
get_next_run_time(t) == {None, t + 1}

----------------------------------------------------------------------------
(* Database helpers *)

Exists(j) == j \in DOMAIN jobs

\* queryset.delete() / instance.delete() of ScheduledJob rows: the logs go with
\* them (JobExecutionLog.scheduled_job, on_delete=CASCADE)
JobsWithout(J) == [j \in DOMAIN jobs \ J |-> jobs[j]]
LogsWithout(J) == [l \in {x \in DOMAIN logs : logs[x].scheduled_job \notin J} |-> logs[l]]

Init ==
    /\ jobs = <<>>
    /\ nextJobId = 1
    /\ ptasks = <<>>
    /\ nextTaskId = 1
    /\ logs = <<>>
    /\ nextLogId = 1
    /\ cache = [u \in Users |-> None]
    /\ queue = <<>>
    /\ now = 1
    /\ worker = [w \in Workers |-> IdleWorker]
    /\ client = [c \in Clients |-> IdleClient]

----------------------------------------------------------------------------
(* scheduler/tasks.py: execute_scheduled_job and execute_job_immediately *)

DbUnchanged == UNCHANGED <<jobs, nextJobId, ptasks, nextTaskId, logs, nextLogId>>

\* the task returns: the worker is idle again and keeps the job id it was
\* called with and the status it returned
Return(w, status) ==
    worker' = [worker EXCEPT ![w] = [IdleWorker EXCEPT !.job = worker[w].job,
                                                       !.ret = status]]

\* execute_scheduled_job returns: to the runner, or into the finally block of
\* execute_job_immediately when that one called it with custom parameters
Leave(w, rec, status) ==
    IF rec.orig # NoParams
    THEN worker' = [worker EXCEPT ![w] = [rec EXCEPT !.pc = "restore", !.ret = status,
                                                     !.snap = NoInstance, !.log = None,
                                                     !.completed_at = None,
                                                     !.request_id = None]]
    ELSE worker' = [worker EXCEPT ![w] = [IdleWorker EXCEPT !.job = rec.job, !.ret = status]]

Goto(w, label) == worker' = [worker EXCEPT ![w].pc = label]

\* execute_scheduled_job, lines 16-24, without the can_execute guard
get_and_check_NoGuard(w, rec) ==
    IF ~Exists(rec.job) THEN Leave(w, rec, "error")
    ELSE worker' = [worker EXCEPT ![w] = [rec EXCEPT !.pc = "create_log",
                                                     !.snap = jobs[rec.job]]]

\* execute_scheduled_job, lines 16-24: ScheduledJob.objects.get(id), the
\* DoesNotExist handler and the can_execute guard; rec is the worker entering
get_and_check(w, rec) ==
    IF ~Exists(rec.job) THEN Leave(w, rec, "error")
    ELSE IF ~can_execute(jobs[rec.job]) THEN Leave(w, rec, "skipped")
    ELSE worker' = [worker EXCEPT ![w] = [rec EXCEPT !.pc = "create_log",
                                                     !.snap = jobs[rec.job]]]

\* logs that may still be created
LogsLeft(maxLogs) ==
    nextLogId + Cardinality({x \in Workers : worker[x].pc = "create_log"}) <= maxLogs

\* the beat scheduler sends execute_scheduled_job(*args) of an enabled
\* PeriodicTask, and worker w runs it up to the guard
execute_scheduled_job(w, t, maxLogs) ==
    /\ worker[w].pc = "idle"
    /\ t \in DOMAIN ptasks /\ ptasks[t].enabled
    /\ LogsLeft(maxLogs)
    /\ get_and_check(w, [IdleWorker EXCEPT !.job = ptasks[t].args, !.task_id = BeatTaskId,
                                           !.request_id = BeatTaskId])
    /\ DbUnchanged /\ UNCHANGED <<cache, queue, now, client>>

\* lines 26-29: JobExecutionLog.objects.create; the insert fails on the foreign
\* key when the job row is gone (outer except)
create_log(w) ==
    /\ worker[w].pc = "create_log"
    /\ IF ~Exists(worker[w].job)
       THEN Leave(w, worker[w], "error") /\ UNCHANGED <<logs, nextLogId>>
       ELSE /\ logs' = logs @@ (nextLogId :> NewLog(worker[w].job, now))
            /\ nextLogId' = nextLogId + 1
            /\ worker' = [worker EXCEPT ![w].pc = "mark_started", ![w].log = nextLogId]
    /\ UNCHANGED <<jobs, nextJobId, ptasks, nextTaskId, cache, queue, now, client>>

\* JobExecutionLog.mark_as_started(self.request.id), line 31: the id is stored
\* when it is not None; save(update_fields) raises when the row is gone (outer
\* except)
mark_as_started(w) ==
    /\ worker[w].pc = "mark_started"
    /\ IF worker[w].log \notin DOMAIN logs
       THEN Leave(w, worker[w], "error") /\ UNCHANGED logs
       ELSE /\ logs' = [logs EXCEPT ![worker[w].log].status = "running",
                                    ![worker[w].log].started_at = now,
                                    ![worker[w].log].celery_task_id =
                                        IF worker[w].request_id # None
                                        THEN worker[w].request_id ELSE @]
            /\ Goto(w, "run_task")
    /\ UNCHANGED <<jobs, nextJobId, ptasks, nextTaskId, nextLogId, cache, queue, now, client>>

\* lines 34-35: get_task_function and task_function(**parameters) return
\* normally or raise
run_task(w) ==
    /\ worker[w].pc = "run_task"
    /\ \E raised \in BOOLEAN :
          Goto(w, IF raised THEN "mark_failed" ELSE "mark_completed")
    /\ DbUnchanged /\ UNCHANGED <<cache, queue, now, client>>

\* JobExecutionLog.calculate_duration
calculate_duration(log) ==
    IF log.started_at # None /\ log.completed_at # None
    THEN [log EXCEPT !.duration = log.completed_at - log.started_at]
    ELSE log

\* JobExecutionLog.mark_as_completed (line 37), lines 242-246 of models.py:
\* status and completed_at are assigned on the instance and calculate_duration
\* saves the duration alone; with the row gone the save raises, the handler's
\* mark_as_failed raises again, and the outer except returns
mark_as_completed(w) ==
    /\ worker[w].pc = "mark_completed"
    /\ IF worker[w].log \notin DOMAIN logs
       THEN Leave(w, worker[w], "error") /\ UNCHANGED <<logs, now>>
       ELSE /\ now' = now + 1
            /\ logs' = [logs EXCEPT ![worker[w].log].duration =
                           calculate_duration([logs[worker[w].log] EXCEPT
                                                   !.completed_at = now']).duration]
            /\ worker' = [worker EXCEPT ![w].pc = "save_completed",
                                        ![w].completed_at = now']
    /\ UNCHANGED <<jobs, nextJobId, ptasks, nextTaskId, nextLogId, cache, queue, client>>

\* JobExecutionLog.mark_as_completed, line 247 of models.py: the save of status,
\* completed_at, result and duration
save_completed(w) ==
    /\ worker[w].pc = "save_completed"
    /\ IF worker[w].log \notin DOMAIN logs
       THEN Leave(w, worker[w], "error") /\ UNCHANGED logs
       ELSE /\ logs' = [logs EXCEPT ![worker[w].log] =
                           calculate_duration([@ EXCEPT !.status = "success",
                                                        !.completed_at = worker[w].completed_at])]
            /\ Goto(w, "record_success")
    /\ UNCHANGED <<jobs, nextJobId, ptasks, nextTaskId, nextLogId, cache, queue, now, client>>

\* lines 39-44 raising with the execution log still stored: the handler at
\* line 55 runs on a log that is already completed
record_success_Raises(w) ==
    /\ worker[w].pc = "record_success"
    /\ Goto(w, "mark_failed")
    /\ UNCHANGED <<jobs, nextJobId, ptasks, nextTaskId, logs, nextLogId, cache, queue, now, client>>

\* lines 39-44 without the transaction, raising after increment_execution_count
\* has saved: the handler at line 55 runs on the completed log
record_success_ThenRaises(w) ==
    /\ worker[w].pc = "record_success"
    /\ IF ~Exists(worker[w].job)
       THEN Goto(w, "mark_failed") /\ UNCHANGED jobs
       ELSE /\ jobs' = [jobs EXCEPT ![worker[w].job].execution_count =
                                        worker[w].snap.execution_count + 1]
            /\ Goto(w, "mark_failed")
    /\ UNCHANGED <<nextJobId, ptasks, nextTaskId, logs, nextLogId, cache, queue, now, client>>

\* lines 39-44 with a save of every field of the instance fetched at line 16
record_success_SavesAll(w) ==
    /\ worker[w].pc = "record_success"
    /\ IF ~Exists(worker[w].job)
       THEN Goto(w, "mark_failed") /\ UNCHANGED jobs
       ELSE /\ \E next \in get_next_run_time(now) :
                  jobs' = [jobs EXCEPT ![worker[w].job] =
                              [worker[w].snap EXCEPT !.execution_count = @ + 1,
                                                     !.consecutive_failures = 0,
                                                     !.last_run = now,
                                                     !.next_run = next]]
            /\ Leave(w, worker[w], "success")
    /\ UNCHANGED <<nextJobId, ptasks, nextTaskId, logs, nextLogId, cache, queue, now, client>>

\* lines 39-44, one transaction: increment_execution_count and reset_failure_count
\* on the instance fetched at line 16, last_run, next_run, and the save of these
\* four fields; with the row gone the first save raises and the handler at
\* line 55 runs
record_success(w) ==
    /\ worker[w].pc = "record_success"
    /\ IF ~Exists(worker[w].job)
       THEN worker' = [worker EXCEPT ![w].pc = "mark_failed",
                                     ![w].snap.execution_count = @ + 1]
            /\ UNCHANGED jobs
       ELSE /\ \E next \in get_next_run_time(now) :
                  jobs' = [jobs EXCEPT ![worker[w].job].execution_count =
                                           worker[w].snap.execution_count + 1,
                                       ![worker[w].job].consecutive_failures = 0,
                                       ![worker[w].job].last_run = now,
                                       ![worker[w].job].next_run = next]
            /\ Leave(w, worker[w], "success")
    /\ UNCHANGED <<nextJobId, ptasks, nextTaskId, logs, nextLogId, cache, queue, now, client>>

\* JobExecutionLog.mark_as_failed (line 56), lines 250-254 of models.py: status,
\* completed_at and the error message are assigned on the instance and
\* calculate_duration saves the duration alone
mark_as_failed(w) ==
    /\ worker[w].pc = "mark_failed"
    /\ IF worker[w].log \notin DOMAIN logs
       THEN Leave(w, worker[w], "error") /\ UNCHANGED <<logs, now>>
       ELSE /\ now' = now + 1
            /\ logs' = [logs EXCEPT ![worker[w].log].duration =
                           calculate_duration([logs[worker[w].log] EXCEPT
                                                   !.completed_at = now']).duration]
            /\ worker' = [worker EXCEPT ![w].pc = "save_failed",
                                        ![w].completed_at = now']
    /\ UNCHANGED <<jobs, nextJobId, ptasks, nextTaskId, nextLogId, cache, queue, client>>

\* JobExecutionLog.mark_as_failed whose last save leaves the status out
save_failed_KeepsStatus(w) ==
    /\ worker[w].pc = "save_failed"
    /\ IF worker[w].log \notin DOMAIN logs
       THEN Leave(w, worker[w], "error") /\ UNCHANGED logs
       ELSE /\ logs' = [logs EXCEPT ![worker[w].log] =
                           calculate_duration([@ EXCEPT !.completed_at = worker[w].completed_at,
                                                        !.error_message = RaisedError])]
            /\ Goto(w, "record_failure")
    /\ UNCHANGED <<jobs, nextJobId, ptasks, nextTaskId, nextLogId, cache, queue, now, client>>

\* JobExecutionLog.mark_as_failed, line 255 of models.py: the save of status,
\* completed_at, error_message, error_traceback and duration
save_failed(w) ==
    /\ worker[w].pc = "save_failed"
    /\ IF worker[w].log \notin DOMAIN logs
       THEN Leave(w, worker[w], "error") /\ UNCHANGED logs
       ELSE /\ logs' = [logs EXCEPT ![worker[w].log] =
                           calculate_duration([@ EXCEPT !.status = "failed",
                                                        !.completed_at = worker[w].completed_at,
                                                        !.error_message = RaisedError])]
            /\ Goto(w, "record_failure")
    /\ UNCHANGED <<jobs, nextJobId, ptasks, nextTaskId, nextLogId, cache, queue, now, client>>

\* lines 58-61, one transaction: increment_failure_count on the instance
\* fetched at line 16, last_run, and the save of these two fields
record_failure(w) ==
    /\ worker[w].pc = "record_failure"
    /\ IF ~Exists(worker[w].job)
       THEN Leave(w, worker[w], "error") /\ UNCHANGED jobs
       ELSE /\ jobs' = [jobs EXCEPT ![worker[w].job].consecutive_failures =
                                        worker[w].snap.consecutive_failures + 1,
                                    ![worker[w].job].last_run = now]
            /\ Leave(w, worker[w], "failed")
    /\ UNCHANGED <<nextJobId, ptasks, nextTaskId, logs, nextLogId, cache, queue, now, client>>

\* execute_job_immediately, lines 141-148: a worker takes the message, gets the
\* job and checks can_execute
execute_job_immediately(w, maxLogs) ==
    /\ worker[w].pc = "idle"
    /\ queue # <<>>
    /\ LogsLeft(maxLogs)
    /\ queue' = Tail(queue)
    /\ LET m == Head(queue)
           rec == [IdleWorker EXCEPT !.job = m.job, !.imm = TRUE, !.task_id = m.id] IN
       IF ~Exists(m.job)
       THEN worker' = [worker EXCEPT ![w] = [IdleWorker EXCEPT !.job = m.job, !.ret = "error"]]
       ELSE IF ~can_execute(jobs[m.job])
            THEN worker' = [worker EXCEPT ![w] = [IdleWorker EXCEPT !.job = m.job, !.ret = "skipped"]]
       ELSE worker' = [worker EXCEPT ![w] =
                [rec EXCEPT !.outer = jobs[m.job],
                            !.pc = IF m.custom THEN "save_params" ELSE "call"]]
    /\ DbUnchanged /\ UNCHANGED <<cache, now, client>>

\* lines 151-154: the custom parameters are merged into the stored ones and saved
save_params(w) ==
    /\ worker[w].pc = "save_params"
    /\ IF ~Exists(worker[w].job)
       THEN Return(w, "error") /\ UNCHANGED jobs
       ELSE /\ jobs' = [jobs EXCEPT ![worker[w].job].parameters =
                                        update(worker[w].outer.parameters, CustomParams)]
            /\ worker' = [worker EXCEPT ![w].pc = "call",
                                        ![w].orig = worker[w].outer.parameters]
    /\ UNCHANGED <<nextJobId, ptasks, nextTaskId, logs, nextLogId, cache, queue, now, client>>

\* line 157: execute_scheduled_job(scheduled_job_id) called in place: Celery's
\* Task.__call__ pushes a new request context for the call, whose id is None
call_execute_scheduled_job(w) ==
    /\ worker[w].pc = "call"
    /\ get_and_check(w, [worker[w] EXCEPT !.request_id = None])
    /\ DbUnchanged /\ UNCHANGED <<cache, queue, now, client>>

\* execute_job_immediately returns after its finally block: the worker is idle
\* and keeps, with the job id and the status, the original_params it had
Returned(w, status) ==
    worker' = [worker EXCEPT ![w] = [IdleWorker EXCEPT !.job = worker[w].job,
                                                       !.ret = status,
                                                       !.imm = TRUE,
                                                       !.orig = worker[w].orig]]

\* lines 156-162 with the restore after the call instead of in a finally block:
\* the original parameters are saved back only when the call returned success
restore_params_AfterSuccess(w) ==
    /\ worker[w].pc = "restore"
    /\ IF ~Exists(worker[w].job)
       THEN Returned(w, "error") /\ UNCHANGED jobs
       ELSE /\ jobs' = [jobs EXCEPT ![worker[w].job].parameters =
                                        IF worker[w].ret = "success" THEN worker[w].orig ELSE @]
            /\ Returned(w, worker[w].ret)
    /\ UNCHANGED <<nextJobId, ptasks, nextTaskId, logs, nextLogId, cache, queue, now, client>>

\* lines 159-162: finally, the original parameters are saved back; with the row
\* gone the save raises and the outer except returns
restore_params(w) ==
    /\ worker[w].pc = "restore"
    /\ IF ~Exists(worker[w].job)
       THEN Returned(w, "error") /\ UNCHANGED jobs
       ELSE /\ jobs' = [jobs EXCEPT ![worker[w].job].parameters = worker[w].orig]
            /\ Returned(w, worker[w].ret)
    /\ UNCHANGED <<nextJobId, ptasks, nextTaskId, logs, nextLogId, cache, queue, now, client>>

----------------------------------------------------------------------------
(* scheduler/tasks.py: sync_scheduled_jobs, and JobSyncService *)

\* the job the loop of sync_all_scheduled_jobs handles next
NextTodo(w) == CHOOSE j \in DOMAIN worker[w].todo : \A k \in DOMAIN worker[w].todo : j <= k

\* the loop goes on with the next job; an exception of this one was logged
Continue(w, logged) ==
    worker' = [worker EXCEPT
                  ![w].todo = [k \in DOMAIN worker[w].todo \ {NextTodo(w)} |-> worker[w].todo[k]],
                  ![w].pc = "sync_jobs",
                  ![w].job = None,
                  ![w].ret = IF logged THEN "logged" ELSE worker[w].ret]

\* sync_scheduled_jobs starts: sync_all_scheduled_jobs evaluates the queryset
\* ScheduledJob.objects.filter(is_active=True)
sync_scheduled_jobs(w) ==
    /\ worker[w].pc = "idle"
    /\ worker' = [worker EXCEPT ![w] =
          [IdleWorker EXCEPT !.pc = "sync_jobs",
                             !.todo = [j \in {k \in DOMAIN jobs : jobs[k].is_active} |-> jobs[j]]]]
    /\ DbUnchanged /\ UNCHANGED <<cache, queue, now, client>>

\* one round of the loop, lines 184-194: create_periodic_task for a job without
\* a handle (the PeriodicTask row; its name is unique), update_periodic_task
\* for a job with one; an exception is logged and the loop continues
sync_job(w) ==
    /\ worker[w].pc = "sync_jobs"
    /\ worker[w].todo # <<>>
    /\ LET j == NextTodo(w)
           job == worker[w].todo[j]
           t == job.celery_task IN
       \E failed \in BOOLEAN :
          IF t = None
          THEN IF failed \/ \E x \in DOMAIN ptasks : ptasks[x].args = j
               THEN Continue(w, TRUE) /\ UNCHANGED <<ptasks, nextTaskId>>
               ELSE /\ ptasks' = ptasks @@ (nextTaskId :> NewPeriodicTask(j, job))
                    /\ nextTaskId' = nextTaskId + 1
                    /\ worker' = [worker EXCEPT ![w].pc = "sync_link", ![w].job = nextTaskId]
          ELSE IF failed \/ t \notin DOMAIN ptasks
               THEN Continue(w, TRUE) /\ UNCHANGED <<ptasks, nextTaskId>>
               ELSE /\ ptasks' = [ptasks EXCEPT ![t].crontab = job.cron_expression,
                                                ![t].enabled = job.is_active]
                    /\ Continue(w, FALSE) /\ UNCHANGED nextTaskId
    /\ UNCHANGED <<jobs, nextJobId, logs, nextLogId, cache, queue, now, client>>

\* create_periodic_task, lines 33-34, called by the loop: the job's celery_task
\* is saved; the save raises when the job row or the PeriodicTask row is gone
sync_link(w) ==
    /\ worker[w].pc = "sync_link"
    /\ LET j == NextTodo(w) IN
       IF ~Exists(j) \/ worker[w].job \notin DOMAIN ptasks
       THEN Continue(w, TRUE) /\ UNCHANGED jobs
       ELSE /\ jobs' = [jobs EXCEPT ![j].celery_task = worker[w].job]
            /\ Continue(w, FALSE)
    /\ UNCHANGED <<nextJobId, ptasks, nextTaskId, logs, nextLogId, cache, queue, now, client>>

\* cleanup_orphaned_tasks, lines 211-215, without the filter on the task name
orphaned_tasks_AnyTask == {t \in DOMAIN ptasks : \A j \in DOMAIN jobs : jobs[j].celery_task # t}

\* the PeriodicTask rows of the dispatch task that no ScheduledJob references
orphaned_tasks ==
    {t \in DOMAIN ptasks : /\ ptasks[t].task = DispatchTask
                           /\ \A j \in DOMAIN jobs : jobs[j].celery_task # t}

\* JobSyncService.cleanup_orphaned_tasks after the loop, and the return of
\* sync_scheduled_jobs: 'success', or 'error' when the cleanup raised
cleanup_orphaned_tasks(w) ==
    /\ worker[w].pc = "sync_jobs"
    /\ worker[w].todo = <<>>
    /\ \E failed \in BOOLEAN :
          IF failed
          THEN Return(w, "error") /\ UNCHANGED ptasks
          ELSE /\ ptasks' = [t \in DOMAIN ptasks \ orphaned_tasks |-> ptasks[t]]
               /\ worker' = [worker EXCEPT ![w] =
                     [IdleWorker EXCEPT !.ret = "success",
                                        !.count = Cardinality(orphaned_tasks)]]
    /\ UNCHANGED <<jobs, nextJobId, nextTaskId, logs, nextLogId, cache, queue, now, client>>

----------------------------------------------------------------------------
(* scheduler/services/job_service.py: JobLimitService *)

active_jobs_count(u) ==
    Cardinality({j \in DOMAIN jobs : /\ jobs[j].user = u
                                     /\ jobs[j].is_active
                                     /\ jobs[j].status = "active"})

\* get_active_jobs_count: the cached count if there is one, else the counted
\* one, which is then cached
get_active_jobs_count(u) == IF cache[u] = None THEN active_jobs_count(u) ELSE cache[u]

cache_set(u) == [cache EXCEPT ![u] = get_active_jobs_count(u)]

max_jobs_Swapped(u) == IF ~is_superuser(u) THEN MAX_JOBS_SUPERUSER ELSE MAX_JOBS_NORMAL_USER

max_jobs(u) == IF is_superuser(u) THEN MAX_JOBS_SUPERUSER ELSE MAX_JOBS_NORMAL_USER

can_create_job(u) == get_active_jobs_count(u) < max_jobs(u)

invalidate_cache(u) == cache' = [cache EXCEPT ![u] = None]

\* the cache entry's 300 s run out
cache_expire(u) ==
    /\ cache[u] # None
    /\ invalidate_cache(u)
    /\ DbUnchanged /\ UNCHANGED <<queue, now, worker, client>>

----------------------------------------------------------------------------
(* scheduler/api/views.py: ScheduledJobViewSet *)

\* the response is sent: the handler is idle again and keeps the request
Respond(c, status) ==
    client' = [client EXCEPT ![c] = [IdleClient EXCEPT !.op = client[c].op,
                                                       !.ret = status]]

Step(c, label) == client' = [client EXCEPT ![c].pc = label]

\* get_queryset: the jobs with is_active = True, of the user unless a superuser
get_queryset(u) ==
    {j \in DOMAIN jobs : jobs[j].is_active /\ (is_superuser(u) \/ jobs[j].user = u)}

\* Model.save() of a fetched instance: UPDATE of every field, INSERT when no row
\* has the pk; the insert fails on a celery_task that does not exist
CanSave(rec) == rec.celery_task = None \/ rec.celery_task \in DOMAIN ptasks

save(j, rec) == IF Exists(j) THEN [jobs EXCEPT ![j] = rec] ELSE jobs @@ (j :> rec)

\* a POST request (create, pause, resume, execute_now) arrives: check_permissions
\* runs JobLimitPermission.has_permission
post(c, op, u, j, custom) ==
    /\ client[c].pc = "idle"
    /\ op \in {"create", "pause", "resume", "execute_now"}
    /\ cache' = cache_set(u)
    /\ LET req == [IdleClient EXCEPT !.op = op, !.user = u, !.job = j, !.custom = custom] IN
       IF can_create_job(u)
       THEN client' = [client EXCEPT ![c] =
                [req EXCEPT !.pc = IF op = "create" THEN "perform_create" ELSE "get_object"]]
       ELSE client' = [client EXCEPT ![c] = [IdleClient EXCEPT !.op = op, !.job = j,
                                                               !.ret = "403"]]
    /\ DbUnchanged /\ UNCHANGED <<queue, now, worker>>

\* a PATCH or DELETE request arrives: has_permission is true for these methods
\* and get_object runs
patch_or_delete(c, op, u, j, body) ==
    /\ client[c].pc = "idle"
    /\ op \in {"update", "destroy"}
    /\ LET req == [IdleClient EXCEPT !.op = op, !.user = u, !.job = j, !.patch = body] IN
       IF j \in get_queryset(u)
       THEN client' = [client EXCEPT ![c] =
                [req EXCEPT !.snap = jobs[j],
                            !.pc = IF op = "update" THEN "save" ELSE "delete_periodic_task"]]
       ELSE client' = [client EXCEPT ![c] = [IdleClient EXCEPT !.op = op, !.job = j,
                                                               !.ret = "404"]]
    /\ DbUnchanged /\ UNCHANGED <<cache, queue, now, worker>>

\* a create request with data arrives: check_permissions, then
\* ScheduledJobCreateSerializer validates the data (is_valid raises the
\* ValidationError with the errors list); parameters left out are stored as
\* the field's default, the empty object
create_request(c, u, attrs) ==
    /\ client[c].pc = "idle"
    /\ "task_definition" \in attrs.fields
    /\ cache' = cache_set(u)
    /\ \E lenient \in BOOLEAN, sec \in Seconds :
       LET req == [IdleClient EXCEPT !.op = "create", !.user = u]
           errors == serializer_errors(attrs, lenient, sec) IN
       IF ~can_create_job(u)
       THEN client' = [client EXCEPT ![c] = [req EXCEPT !.ret = "403"]]
       ELSE IF errors # <<>>
       THEN client' = [client EXCEPT ![c] = [req EXCEPT !.ret = "400", !.data = attrs,
                                                         !.errors = errors]]
       ELSE client' = [client EXCEPT ![c] =
                [req EXCEPT !.pc = "perform_create",
                            !.data = [attrs EXCEPT
                                !.fields = @ \cup {"parameters"},
                                !.parameters = IF "parameters" \in attrs.fields
                                               THEN @ ELSE <<>>]]]
    /\ DbUnchanged /\ UNCHANGED <<queue, now, worker>>

\* a PATCH request with data arrives: get_object, then ScheduledJobSerializer
\* (partial) validates the data
update_request(c, u, j, attrs) ==
    /\ client[c].pc = "idle"
    /\ \E lenient \in BOOLEAN, sec \in Seconds :
       LET req == [IdleClient EXCEPT !.op = "update", !.user = u, !.job = j]
           errors == serializer_errors(attrs, lenient, sec) IN
       IF j \notin get_queryset(u)
       THEN client' = [client EXCEPT ![c] = [req EXCEPT !.ret = "404"]]
       ELSE IF errors # <<>>
       THEN client' = [client EXCEPT ![c] = [req EXCEPT !.ret = "400", !.data = attrs,
                                                         !.errors = errors]]
       ELSE client' = [client EXCEPT ![c] =
                [req EXCEPT !.snap = jobs[j], !.data = attrs, !.pc = "save"]]
    /\ DbUnchanged /\ UNCHANGED <<cache, queue, now, worker>>

\* get_object of pause and resume
get_object(c) ==
    /\ client[c].pc = "get_object"
    /\ client[c].op \in {"pause", "resume"}
    /\ IF client[c].job \in get_queryset(client[c].user)
       THEN client' = [client EXCEPT ![c].snap = jobs[client[c].job], ![c].pc = "save"]
       ELSE Respond(c, "404")
    /\ DbUnchanged /\ UNCHANGED <<cache, queue, now, worker>>

\* execute_now, lines 142-158: get_object, the can_execute guard and .delay()
execute_now(c, maxQueue) ==
    /\ client[c].pc = "get_object"
    /\ client[c].op = "execute_now"
    /\ IF client[c].job \notin get_queryset(client[c].user)
       THEN Respond(c, "404") /\ UNCHANGED queue
       ELSE IF ~can_execute(jobs[client[c].job])
            THEN Respond(c, "500") /\ UNCHANGED queue
       ELSE /\ Len(queue) < maxQueue
            /\ queue' = Append(queue, [job |-> client[c].job, custom |-> client[c].custom,
                                       id |-> NowTaskId])
            /\ client' = [client EXCEPT ![c] = [IdleClient EXCEPT !.op = client[c].op,
                                                               !.ret = "200",
                                                               !.task_id = NowTaskId]]
    /\ DbUnchanged /\ UNCHANGED <<cache, now, worker>>

\* the fields the handler sets on the instance before instance.save():
\* pause lines 168-169, resume lines 188-189, serializer.update for PATCH
ApplyPatch(rec, body) ==
    CASE body.field = "is_active" -> [rec EXCEPT !.is_active = body.flag]
      [] body.field = "status" -> [rec EXCEPT !.status = body.text]
      [] body.field = "max_executions" -> [rec EXCEPT !.max_executions = body.num]
      [] body.field = "max_failures" -> [rec EXCEPT !.max_failures = body.num]
      [] body.field = "cron_expression" -> [rec EXCEPT !.cron_expression = body.cron]
      [] OTHER -> rec

\* the task definition and the parameters of the validated data, set on the
\* instance by serializer.create and serializer.update
ApplyData(rec, data) ==
    [rec EXCEPT !.task_definition = IF "task_definition" \in data.fields
                                    THEN data.task_definition ELSE @,
                !.parameters = IF "parameters" \in data.fields
                               THEN data.parameters ELSE @,
                !.cron_expression = IF "cron_expression" \in data.fields
                                    THEN data.cron_expression ELSE @]

Edited(c) ==
    CASE client[c].op = "pause" -> [client[c].snap EXCEPT !.is_active = FALSE, !.status = "paused"]
      [] client[c].op = "resume" -> [client[c].snap EXCEPT !.is_active = TRUE, !.status = "active"]
      [] OTHER -> ApplyData(ApplyPatch(client[c].snap, client[c].patch), client[c].data)

\* scheduled_job.save() of pause (line 170) and resume (line 190) and
\* serializer.save() of perform_update (line 116): every field of the instance
\* is written
save_instance(c) ==
    /\ client[c].pc = "save"
    /\ IF CanSave(Edited(c))
       THEN /\ jobs' = save(client[c].job, Edited(c))
            /\ client' = [client EXCEPT ![c].snap = Edited(c), ![c].pc = "sync"]
       ELSE Respond(c, "500") /\ UNCHANGED jobs
    /\ UNCHANGED <<nextJobId, ptasks, nextTaskId, logs, nextLogId, cache, queue, now, worker>>

\* perform_create, lines 111-113, without scheduled_job.delete()
Fail_NoRollback(c) == Respond(c, "400")

\* the request fails after serializer.save(): perform_create deletes the job it
\* created, perform_update answers with the ValidationError
Fail(c) == IF client[c].op = "create" THEN Step(c, "rollback") ELSE Respond(c, "400")

\* pause / resume, lines 172-176 and 192-196, without the save of the
\* PeriodicTask's enabled flag
pause_or_resume_periodic_task_NoSave(c) ==
    /\ client[c].pc = "sync"
    /\ client[c].op \in {"pause", "resume"}
    /\ LET t == client[c].snap.celery_task IN
       IF t # None /\ t \notin DOMAIN ptasks THEN Respond(c, "200") ELSE Step(c, "invalidate")
    /\ UNCHANGED <<jobs, nextJobId, ptasks, nextTaskId, logs, nextLogId, cache, queue, now, worker>>

\* pause / resume, lines 172-176 and 192-196, without the try: the exception of
\* the PeriodicTask call reaches the caller
pause_or_resume_periodic_task_Raise(c) ==
    /\ client[c].pc = "sync"
    /\ client[c].op \in {"pause", "resume"}
    /\ LET t == client[c].snap.celery_task IN
       IF t = None THEN Step(c, "invalidate") /\ UNCHANGED ptasks
       ELSE IF t \notin DOMAIN ptasks THEN Respond(c, "500") /\ UNCHANGED ptasks
       ELSE \E failed \in BOOLEAN :
               IF failed THEN Respond(c, "500") /\ UNCHANGED ptasks
               ELSE /\ ptasks' = [ptasks EXCEPT ![t].enabled = (client[c].op = "resume")]
                    /\ Step(c, "invalidate")
    /\ UNCHANGED <<jobs, nextJobId, nextTaskId, logs, nextLogId, cache, queue, now, worker>>

\* CeleryTaskService.pause_periodic_task / resume_periodic_task inside the try
\* of pause (lines 172-176) and resume (lines 192-196): an exception skips
\* invalidate_cache and is swallowed
pause_or_resume_periodic_task(c) ==
    /\ client[c].pc = "sync"
    /\ client[c].op \in {"pause", "resume"}
    /\ LET t == client[c].snap.celery_task IN
       IF t = None THEN Step(c, "invalidate") /\ UNCHANGED ptasks
       ELSE IF t \notin DOMAIN ptasks THEN Respond(c, "200") /\ UNCHANGED ptasks
       ELSE \E failed \in BOOLEAN :
               IF failed THEN Respond(c, "200") /\ UNCHANGED ptasks
               ELSE /\ ptasks' = [ptasks EXCEPT ![t].enabled = (client[c].op = "resume")]
                    /\ Step(c, "invalidate")
    /\ UNCHANGED <<jobs, nextJobId, nextTaskId, logs, nextLogId, cache, queue, now, worker>>

\* CeleryTaskService.update_periodic_task, lines 59-62, creating a new
\* PeriodicTask in place of the save of the existing one
update_periodic_task_Recreate(c) ==
    /\ client[c].pc = "sync"
    /\ client[c].op = "update"
    /\ LET t == client[c].snap.celery_task IN
       IF t = None THEN Step(c, "create_periodic_task") /\ UNCHANGED <<ptasks, nextTaskId>>
       ELSE IF t \notin DOMAIN ptasks THEN Respond(c, "400") /\ UNCHANGED <<ptasks, nextTaskId>>
       ELSE \E failed \in BOOLEAN :
               IF failed THEN Respond(c, "400") /\ UNCHANGED <<ptasks, nextTaskId>>
               ELSE /\ ptasks' = ptasks @@
                           (nextTaskId :> NewPeriodicTask(client[c].job, client[c].snap))
                    /\ nextTaskId' = nextTaskId + 1
                    /\ Respond(c, "200")
    /\ UNCHANGED <<jobs, nextJobId, logs, nextLogId, cache, queue, now, worker>>

\* perform_update, lines 117-120, without the raise of the ValidationError
update_periodic_task_Swallow(c) ==
    /\ client[c].pc = "sync"
    /\ client[c].op = "update"
    /\ LET t == client[c].snap.celery_task IN
       IF t = None THEN Step(c, "create_periodic_task") /\ UNCHANGED ptasks
       ELSE IF t \notin DOMAIN ptasks THEN Respond(c, "200") /\ UNCHANGED ptasks
       ELSE \E failed \in BOOLEAN :
               IF failed THEN Respond(c, "200") /\ UNCHANGED ptasks
               ELSE /\ ptasks' = [ptasks EXCEPT ![t].crontab = client[c].snap.cron_expression,
                                                 ![t].enabled = client[c].snap.is_active]
                    /\ Respond(c, "200")
    /\ UNCHANGED <<jobs, nextJobId, nextTaskId, logs, nextLogId, cache, queue, now, worker>>

\* CeleryTaskService.update_periodic_task called by perform_update (lines 117-120)
update_periodic_task(c) ==
    /\ client[c].pc = "sync"
    /\ client[c].op = "update"
    /\ LET t == client[c].snap.celery_task IN
       IF t = None THEN Step(c, "create_periodic_task") /\ UNCHANGED ptasks
       ELSE IF t \notin DOMAIN ptasks THEN Respond(c, "400") /\ UNCHANGED ptasks
       ELSE \E failed \in BOOLEAN :
               IF failed THEN Respond(c, "400") /\ UNCHANGED ptasks
               ELSE /\ ptasks' = [ptasks EXCEPT ![t].crontab = client[c].snap.cron_expression,
                                                 ![t].enabled = client[c].snap.is_active]
                    /\ Respond(c, "200")
    /\ UNCHANGED <<jobs, nextJobId, nextTaskId, logs, nextLogId, cache, queue, now, worker>>

\* perform_create, lines 104-105: the quota check
perform_create(c) ==
    /\ client[c].pc = "perform_create"
    /\ cache' = cache_set(client[c].user)
    /\ IF can_create_job(client[c].user) THEN Step(c, "create_save") ELSE Respond(c, "400")
    /\ DbUnchanged /\ UNCHANGED <<queue, now, worker>>

\* perform_create, line 107: serializer.save(user=request.user)
create_save(c) ==
    /\ client[c].pc = "create_save"
    /\ jobs' = jobs @@ (nextJobId :> ApplyData(NewJob(client[c].user), client[c].data))
    /\ nextJobId' = nextJobId + 1
    /\ client' = [client EXCEPT ![c].job = nextJobId,
                                ![c].snap = ApplyData(NewJob(client[c].user), client[c].data),
                                ![c].pc = "create_periodic_task"]
    /\ UNCHANGED <<ptasks, nextTaskId, logs, nextLogId, cache, queue, now, worker>>

\* CeleryTaskService.create_periodic_task, lines 11-31: PeriodicTask.objects.create
\* with name scheduled_job_<id> (unique), enabled = is_active
create_periodic_task(c) ==
    /\ client[c].pc = "create_periodic_task"
    /\ \E failed \in BOOLEAN :
          IF failed \/ \E t \in DOMAIN ptasks : ptasks[t].args = client[c].job
          THEN Fail(c) /\ UNCHANGED <<ptasks, nextTaskId>>
          ELSE /\ ptasks' = ptasks @@
                      (nextTaskId :> NewPeriodicTask(client[c].job, client[c].snap))
               /\ nextTaskId' = nextTaskId + 1
               /\ client' = [client EXCEPT ![c].task = nextTaskId, ![c].pc = "link"]
    /\ UNCHANGED <<jobs, nextJobId, logs, nextLogId, cache, queue, now, worker>>

\* CeleryTaskService.create_periodic_task, lines 33-34: the job's celery_task is
\* saved; the save raises when the job row or the PeriodicTask row is gone
link_periodic_task(c) ==
    /\ client[c].pc = "link"
    /\ IF ~Exists(client[c].job) \/ client[c].task \notin DOMAIN ptasks
       THEN Fail(c) /\ UNCHANGED jobs
       ELSE /\ jobs' = [jobs EXCEPT ![client[c].job].celery_task = client[c].task]
            /\ IF client[c].op = "create"
               THEN client' = [client EXCEPT ![c].snap.celery_task = client[c].task,
                                             ![c].pc = "invalidate"]
               ELSE Respond(c, "200")
    /\ UNCHANGED <<nextJobId, ptasks, nextTaskId, logs, nextLogId, cache, queue, now, worker>>

\* perform_create, lines 112-113: scheduled_job.delete() and the ValidationError
rollback(c) ==
    /\ client[c].pc = "rollback"
    /\ jobs' = JobsWithout({client[c].job})
    /\ logs' = LogsWithout({client[c].job})
    /\ Respond(c, "400")
    /\ UNCHANGED <<nextJobId, ptasks, nextTaskId, nextLogId, cache, queue, now, worker>>

\* JobLimitService.invalidate_cache at the end of the try of perform_create
\* (line 110), perform_destroy (line 125), pause (line 174), resume (line 194)
invalidate(c) ==
    /\ client[c].pc = "invalidate"
    /\ invalidate_cache(client[c].snap.user)
    /\ CASE client[c].op = "create" -> Respond(c, "201")
         [] client[c].op = "destroy" -> Step(c, "delete_row")
         [] OTHER -> Respond(c, "200")
    /\ DbUnchanged /\ UNCHANGED <<queue, now, worker>>

\* CeleryTaskService.delete_periodic_task called by perform_destroy (line 124):
\* deleting the PeriodicTask row deletes the ScheduledJob rows that reference it
\* (ScheduledJob.celery_task, on_delete=CASCADE) and their logs
delete_periodic_task(c) ==
    /\ client[c].pc = "delete_periodic_task"
    /\ LET t == client[c].snap.celery_task
           linked == {j \in DOMAIN jobs : jobs[j].celery_task = t} IN
       IF t = None THEN Step(c, "invalidate") /\ UNCHANGED <<jobs, ptasks, logs>>
       ELSE IF t \notin DOMAIN ptasks THEN Step(c, "delete_row") /\ UNCHANGED <<jobs, ptasks, logs>>
       ELSE \E failed \in BOOLEAN :
               IF failed THEN Step(c, "invalidate") /\ UNCHANGED <<jobs, ptasks, logs>>
               ELSE /\ ptasks' = [x \in DOMAIN ptasks \ {t} |-> ptasks[x]]
                    /\ jobs' = JobsWithout(linked)
                    /\ logs' = LogsWithout(linked)
                    /\ Step(c, "invalidate")
    /\ UNCHANGED <<nextJobId, nextTaskId, nextLogId, cache, queue, now, worker>>

\* perform_destroy, line 128: instance.delete()
delete_row(c) ==
    /\ client[c].pc = "delete_row"
    /\ jobs' = JobsWithout({client[c].job})
    /\ logs' = LogsWithout({client[c].job})
    /\ Respond(c, "204")
    /\ UNCHANGED <<nextJobId, ptasks, nextTaskId, nextLogId, cache, queue, now, worker>>

----------------------------------------------------------------------------
(* The specifications *)

\* no task is running, no request is being handled
WorkersIdle == \A w \in Workers : worker[w].pc = "idle"
ClientsIdle == \A c \in Clients : client[c].pc = "idle"

\* job ids a request can name: the ids given out so far
Pks == 1 .. (nextJobId - 1)

\* job rows that may still be created
JobsLeft(maxJobs) ==
    nextJobId + Cardinality({c \in Clients : client[c].pc \in {"perform_create", "create_save"}})
        <= maxJobs

\* the steps of a running task
WorkerStep(w) ==
    \/ create_log(w)
    \/ mark_as_started(w)
    \/ run_task(w)
    \/ mark_as_completed(w)
    \/ save_completed(w)
    \/ record_success(w)
    \/ mark_as_failed(w)
    \/ save_failed(w)
    \/ record_failure(w)

\* the steps of a running execute_job_immediately
ImmediateStep(w) ==
    \/ save_params(w)
    \/ call_execute_scheduled_job(w)
    \/ restore_params(w)

\* the steps of a running create request
CreateStep(c) ==
    \/ perform_create(c)
    \/ create_save(c)
    \/ create_periodic_task(c)
    \/ link_periodic_task(c)
    \/ rollback(c)
    \/ invalidate(c)

\* the steps of the other running requests
ControlStep(c) ==
    \/ get_object(c)
    \/ save_instance(c)
    \/ pause_or_resume_periodic_task(c)
    \/ update_periodic_task(c)
    \/ delete_periodic_task(c)
    \/ delete_row(c)

\* the tasks the workers W run: the scheduled dispatch and its steps
Dispatch(W, maxLogs) ==
    \/ \E w \in W : \E t \in DOMAIN ptasks : execute_scheduled_job(w, t, maxLogs)
    \/ \E w \in W : WorkerStep(w)

\* a create request of user u handled by c, and its steps
Create(c, u, maxJobs) ==
    \/ JobsLeft(maxJobs) /\ post(c, "create", u, None, FALSE)
    \/ CreateStep(c)

\* PATCH bodies of the update requests
StatusPatches == {SetText("status", "inactive"), SetText("status", "active")}
LimitPatches == {SetNum("max_executions", 0), SetNum("max_failures", DefaultMaxFailures + 1)}
Patches == StatusPatches \cup LimitPatches \cup {SetFlag("is_active", FALSE)}

\* the requests of one user but execute_now, and the scheduled dispatches: any
\* interleaving of one request handler and one worker
Next ==
    \/ Dispatch({"w1"}, MaxLogs)
    \/ Create("c1", "alice", MaxJobs)
    \/ \E op \in {"pause", "resume"} : \E j \in Pks : post("c1", op, "alice", j, FALSE)
    \/ \E j \in Pks : \E body \in Patches : patch_or_delete("c1", "update", "alice", j, body)
    \/ \E j \in Pks : patch_or_delete("c1", "destroy", "alice", j, NoPatch)
    \/ ControlStep("c1")

Spec == Init /\ [][Next]_vars

\* both entry points of a dispatch, the scheduled one and execute_now, while the
\* owner pauses the job or takes it out of status active
NextNow ==
    \/ Dispatch({"w1"}, MaxLogs)
    \/ execute_job_immediately("w1", MaxLogs)
    \/ ImmediateStep("w1")
    \/ Create("c1", "alice", MaxJobs)
    \/ \E j \in Pks : post("c1", "pause", "alice", j, FALSE)
    \/ \E j \in Pks : \E custom \in BOOLEAN : post("c1", "execute_now", "alice", j, custom)
    \/ \E j \in Pks : patch_or_delete("c1", "update", "alice", j, SetText("status", "inactive"))
    \/ execute_now("c1", MaxQueue)
    \/ get_object("c1")
    \/ save_instance("c1")
    \/ pause_or_resume_periodic_task("c1")
    \/ update_periodic_task("c1")

SpecNow == Init /\ [][NextNow]_vars

\* one job dispatched again and again by one worker while its owner raises
\* max_failures
NextFailures ==
    \/ Dispatch({"w1"}, MaxLogsFailures)
    \/ Create("c1", "alice", MaxJobs)
    \/ \E j \in Pks : patch_or_delete("c1", "update", "alice", j,
                                      SetNum("max_failures", DefaultMaxFailures + 1))
    \/ save_instance("c1")
    \/ update_periodic_task("c1")

SpecFailures == Init /\ [][NextFailures]_vars

\* concurrent dispatches of one job by two workers, nothing else
NextDispatch ==
    \/ Dispatch(Workers, MaxLogsDispatch)
    \/ Create("c1", "alice", MaxJobs)

SpecDispatch == Init /\ [][NextDispatch]_vars

\* create, resume and update requests of one user, one at a time, and the
\* expiry of the cached count
NextSeq ==
    \/ Create("c1", "alice", MaxJobsSeq)
    \/ cache_expire("alice")
    \/ \E j \in Pks : post("c1", "resume", "alice", j, FALSE)
    \/ \E j \in Pks : \E body \in StatusPatches : patch_or_delete("c1", "update", "alice", j, body)
    \/ get_object("c1")
    \/ save_instance("c1")
    \/ pause_or_resume_periodic_task("c1")
    \/ update_periodic_task("c1")

SpecSeq == Init /\ [][NextSeq]_vars

\* create and update requests of one user, one at a time
NextQuota ==
    \/ Create("c1", "alice", MaxJobsSeq)
    \/ \E j \in Pks : \E body \in StatusPatches : patch_or_delete("c1", "update", "alice", j, body)
    \/ save_instance("c1")
    \/ update_periodic_task("c1")

SpecQuota == Init /\ [][NextQuota]_vars

\* concurrent create requests of one user, nothing else
NextCreate ==
    \E c \in Clients : Create(c, "alice", MaxJobsCreate)

SpecCreate == Init /\ [][NextCreate]_vars

\* the steps of a running sync_scheduled_jobs
SyncStep(w) ==
    \/ sync_job(w)
    \/ sync_link(w)
    \/ cleanup_orphaned_tasks(w)

\* PATCH bodies that the handle has to follow
HandlePatches == {SetCron(OtherCron), SetFlag("is_active", FALSE)}

\* the requests that synchronize the handle, of one user
Control(c) ==
    \/ Create(c, "alice", MaxJobs)
    \/ \E op \in {"pause", "resume"} : \E j \in Pks : post(c, op, "alice", j, FALSE)
    \/ \E j \in Pks : \E body \in HandlePatches : patch_or_delete(c, "update", "alice", j, body)
    \/ get_object(c)
    \/ save_instance(c)
    \/ pause_or_resume_periodic_task(c)
    \/ update_periodic_task(c)

\* requests of one user and sync passes, one operation at a time
NextMirror ==
    \/ WorkersIdle /\ Control("c1")
    \/ ClientsIdle /\ sync_scheduled_jobs("w1")
    \/ sync_job("w1")
    \/ cleanup_orphaned_tasks("w1")

SpecMirror == Init /\ [][NextMirror]_vars

\* requests of one user interleaved with sync passes
NextSync ==
    \/ Control("c1")
    \/ sync_scheduled_jobs("w1")
    \/ SyncStep("w1")

SpecSync == Init /\ [][NextSync]_vars

\* a database that holds a PeriodicTask of another task
InitOrphans ==
    /\ jobs = <<>>
    /\ nextJobId = 1
    /\ ptasks = <<ForeignTask>>
    /\ nextTaskId = 2
    /\ logs = <<>>
    /\ nextLogId = 1
    /\ cache = [u \in Users |-> None]
    /\ queue = <<>>
    /\ now = 1
    /\ worker = [w \in Workers |-> IdleWorker]
    /\ client = [c \in Clients |-> IdleClient]

\* create and delete requests of one user interleaved with sync passes
NextOrphans ==
    \/ Create("c1", "alice", MaxJobsOrphans)
    \/ \E j \in Pks : patch_or_delete("c1", "destroy", "alice", j, NoPatch)
    \/ delete_periodic_task("c1")
    \/ delete_row("c1")
    \/ sync_scheduled_jobs("w1")
    \/ SyncStep("w1")

SpecOrphans == InitOrphans /\ [][NextOrphans]_vars

\* parameter objects of the requests
AnEmail == PyStr(<<"a", "@", "b">>)
NotAnEmail == PyStr(<<"n", "o">>)
ParamDicts ==
    {<<>>,
     [recipient_email |-> AnEmail],
     [recipient_email |-> NotAnEmail],
     [recipient_email |-> AnEmail, subject |-> PyInt(<<"5">>)],
     [subject |-> PyInt(<<"5">>)],
     [recipient_email |-> NotAnEmail, subject |-> PyBool(<<"t">>)],
     [days |-> PyStr(<<"7">>)],
     [days |-> PyStr(<<"x">>), until |-> PyInt(<<"5">>)]}

\* the data of the requests: a task definition, parameters, or both
Bodies(fieldSets) ==
    {Data(fields, td, params) : fields \in fieldSets, td \in {"send_email", "cleanup"},
                                params \in ParamDicts}

\* create and update requests of one user that give a task definition and
\* parameters
NextParams ==
    \/ JobsLeft(MaxJobs)
       /\ \E attrs \in Bodies({{"task_definition"}, {"task_definition", "parameters"}}) :
             create_request("c1", "alice", attrs)
    \/ CreateStep("c1")
    \/ \E j \in Pks :
          \E attrs \in Bodies({{"task_definition"}, {"parameters"},
                               {"task_definition", "parameters"}}) :
             update_request("c1", "alice", j, attrs)
    \/ save_instance("c1")
    \/ update_periodic_task("c1")

SpecParams == Init /\ [][NextParams]_vars

\* minute: "*", "0", "59", "60", "*/5", "*/0", "0,30", "0,60", "10-20", "20-10",
\* "5/15", "99/5", "1-5/2", "a"
MinuteFields ==
    {<<"*">>, <<"0">>, <<"5", "9">>, <<"6", "0">>, <<"*", "/", "5">>, <<"*", "/", "0">>,
     <<"0", ",", "3", "0">>, <<"0", ",", "6", "0">>, <<"1", "0", "-", "2", "0">>,
     <<"2", "0", "-", "1", "0">>, <<"5", "/", "1", "5">>, <<"9", "9", "/", "5">>,
     <<"1", "-", "5", "/", "2">>, <<"a">>}
\* hour: "*", "9", "23", "25", "1-5", "5-1", "*/2", "0,12", "0,24"
HourFields ==
    {<<"*">>, <<"9">>, <<"2", "3">>, <<"2", "5">>, <<"1", "-", "5">>, <<"5", "-", "1">>,
     <<"*", "/", "2">>, <<"0", ",", "1", "2">>, <<"0", ",", "2", "4">>}
\* day: "*", "1", "0", "29", "30", "31", "32", "1,15", "1-31", "*/0"
DayFields ==
    {<<"*">>, <<"1">>, <<"0">>, <<"2", "9">>, <<"3", "0">>, <<"3", "1">>, <<"3", "2">>,
     <<"1", ",", "1", "5">>, <<"1", "-", "3", "1">>, <<"*", "/", "0">>}
\* month: "*", "1", "12", "13", "0", "2", "4", "11", "1-6", "6-1"
MonthFields ==
    {<<"*">>, <<"1">>, <<"1", "2">>, <<"1", "3">>, <<"0">>, <<"2">>, <<"4">>,
     <<"1", "1">>, <<"1", "-", "6">>, <<"6", "-", "1">>}
\* day_of_week: "*", "0", "6", "7", "8", "1-5", "5-1", "0,6", "*/2"
DayOfWeekFields ==
    {<<"*">>, <<"0">>, <<"6">>, <<"7">>, <<"8">>, <<"1", "-", "5">>, <<"5", "-", "1">>,
     <<"0", ",", "6">>, <<"*", "/", "2">>}

\* the cron expressions of the requests: "0 9 * * *" with one field replaced,
\* the days 29, 30, 31 and "1,31" in the months 1, 2, 4 and 11, and the
\* expressions of another length: "", "* * *", "* * * * * *",
\* "* * * * * */30", "* * * * * 0" and "* * * * * 0,59"
OneField ==
    {[StoredCron EXCEPT ![1] = x] : x \in MinuteFields}
    \cup {[StoredCron EXCEPT ![2] = x] : x \in HourFields}
    \cup {[StoredCron EXCEPT ![3] = x] : x \in DayFields}
    \cup {[StoredCron EXCEPT ![4] = x] : x \in MonthFields}
    \cup {[StoredCron EXCEPT ![5] = x] : x \in DayOfWeekFields}
DayAndMonth ==
    {[StoredCron EXCEPT ![3] = d, ![4] = m] :
        d \in {<<"2", "9">>, <<"3", "0">>, <<"3", "1">>, <<"1", ",", "3", "1">>},
        m \in {<<"1">>, <<"2">>, <<"4">>, <<"1", "1">>}}
EveryMinute == <<<<"*">>, <<"*">>, <<"*">>, <<"*">>, <<"*">>>>
OtherLengths ==
    {<<>>, SubSeq(EveryMinute, 1, 3),
     Append(EveryMinute, <<"*">>), Append(EveryMinute, <<"*", "/", "3", "0">>),
     Append(EveryMinute, <<"0">>), Append(EveryMinute, <<"0", ",", "5", "9">>)}
CronSamples == OneField \cup DayAndMonth \cup OtherLengths

\* the data of the create requests and of the PATCH requests that give a cron
\* expression
CronBodies ==
    {WithCron(Data({"task_definition"}, DefaultDefinition, <<>>), value) :
        value \in CronSamples}
CronPatches ==
    {WithCron(NoData, value) :
        value \in {OtherCron} \cup OtherLengths
                  \cup {[OtherCron EXCEPT ![2] = x] :
                            x \in {<<"2", "5">>, <<"5", "-", "1">>, <<"*", "/", "2">>}}}

\* create and update requests of one user that give a cron expression
NextCron ==
    \/ JobsLeft(MaxJobsCron)
       /\ \E attrs \in CronBodies : create_request("c1", "alice", attrs)
    \/ CreateStep("c1")
    \/ \E j \in Pks : \E attrs \in CronPatches : update_request("c1", "alice", j, attrs)
    \/ save_instance("c1")
    \/ update_periodic_task("c1")

SpecCron == Init /\ [][NextCron]_vars

\* the database after a create request and a PATCH {max_executions: 1} of the
\* owner have completed: one linked job that may run once
LimitedJob == [NewJob("alice") EXCEPT !.celery_task = 1, !.max_executions = 1]
InitLimit ==
    /\ jobs = <<LimitedJob>>
    /\ nextJobId = 2
    /\ ptasks = <<NewPeriodicTask(1, LimitedJob)>>
    /\ nextTaskId = 2
    /\ logs = <<>>
    /\ nextLogId = 1
    /\ cache = [u \in Users |-> None]
    /\ queue = <<>>
    /\ now = 1
    /\ worker = [w \in Workers |-> IdleWorker]
    /\ client = [c \in Clients |-> IdleClient]

\* concurrent dispatches of the limited job by the workers
NextLimit ==
    \/ \E w \in Workers : \E t \in DOMAIN ptasks : execute_scheduled_job(w, t, MaxLogsLimit)
    \/ \E w \in Workers : WorkerStep(w)

SpecLimit == InitLimit /\ [][NextLimit]_vars

\* the database after a create request of alice has completed: one linked job
LinkedJob == [NewJob("alice") EXCEPT !.celery_task = 1]
InitLinked ==
    /\ jobs = <<LinkedJob>>
    /\ nextJobId = 2
    /\ ptasks = <<NewPeriodicTask(1, LinkedJob)>>
    /\ nextTaskId = 2
    /\ logs = <<>>
    /\ nextLogId = 1
    /\ cache = [u \in Users |-> None]
    /\ queue = <<>>
    /\ now = 1
    /\ worker = [w \in Workers |-> IdleWorker]
    /\ client = [c \in Clients |-> IdleClient]

\* execute-now requests with custom parameters for the linked job, run by one
\* worker while the beat scheduler dispatches the job to the other
NextCustom ==
    \/ \E w \in Workers : \E t \in DOMAIN ptasks : execute_scheduled_job(w, t, MaxLogsCustom)
    \/ \E w \in Workers : WorkerStep(w)
    \/ \E w \in Workers : execute_job_immediately(w, MaxLogsCustom)
    \/ \E w \in Workers : ImmediateStep(w)
    \/ \E j \in Pks : post("c1", "execute_now", "alice", j, TRUE)
    \/ execute_now("c1", MaxQueue)

SpecCustom == InitLinked /\ [][NextCustom]_vars

\* create, pause and resume requests of one user, one at a time
NextPause ==
    \/ Create("c1", "alice", MaxJobsPause)
    \/ \E op \in {"pause", "resume"} : \E j \in Pks : post("c1", op, "alice", j, FALSE)
    \/ get_object("c1")
    \/ save_instance("c1")
    \/ pause_or_resume_periodic_task("c1")

SpecPause == Init /\ [][NextPause]_vars

----------------------------------------------------------------------------
(* The claims *)

\* the execution logs of job j with status s
LogsOf(j, s) == {l \in DOMAIN logs : logs[l].scheduled_job = j /\ logs[l].status = s}

\* worker w enters execute_scheduled_job (from the runner, from
\* execute_job_immediately's check or from its in-place call) against job j
Enters(w, j) ==
    /\ worker[w].pc \in {"idle", "call"}
    /\ worker'[w] # worker[w]
    /\ j = worker'[w].job

\* the entry returned 'skipped' at the guard and wrote nothing
Skipped(w) ==
    /\ worker'[w].ret = "skipped"
    /\ worker'[w].pc \in {"idle", "restore"}
    /\ jobs' = jobs /\ logs' = logs /\ nextLogId' = nextLogId

\* C1: for every stored job, can_execute() is true if and only if is_active is
\* true, status is 'active', max_executions is unset or execution_count is below
\* it, and consecutive_failures is below max_failures.
CanExecuteAsSpecified ==
    \A j \in DOMAIN jobs : can_execute(jobs[j]) <=> can_execute_AsClaimed(jobs[j])

\* C2: a dispatch that starts (scheduled entry point, execute_job_immediately,
\* or the execute_now view) against a job whose can_execute() is false is
\* rejected: the worker returns 'skipped' before the task function, the view
\* answers with an error and sends nothing, no execution log is created and the
\* job row is left as it is.
DispatchRejected ==
    [][/\ \A w \in Workers : \A j \in DOMAIN jobs :
             Enters(w, j) /\ ~can_execute(jobs[j]) => Skipped(w)
       /\ \A c \in Clients :
             (/\ client[c].pc = "get_object" /\ client[c].op = "execute_now"
              /\ client'[c] # client[c]
              /\ Exists(client[c].job) /\ ~can_execute(jobs[client[c].job]))
             => /\ client'[c].ret \in {"404", "500"}
                /\ queue' = queue /\ jobs' = jobs /\ logs' = logs]_vars

\* C2, witness: a dispatch returned 'skipped' for a stored job that cannot
\* execute, and there is no execution log
SkippedDispatch ==
    \E w \in Workers :
        /\ worker[w].pc = "idle" /\ worker[w].ret = "skipped"
        /\ Exists(worker[w].job) /\ ~can_execute(jobs[worker[w].job])
        /\ logs = <<>>

\* C3: when the concurrent dispatches of a job have all returned,
\* execution_count is the number of them that succeeded, and with no success
\* among them consecutive_failures is the number of them that failed.
NoLostUpdate ==
    WorkersIdle =>
        \A j \in DOMAIN jobs :
            /\ jobs[j].execution_count = Cardinality(LogsOf(j, "success"))
            /\ LogsOf(j, "success") = {} =>
                   jobs[j].consecutive_failures = Cardinality(LogsOf(j, "failed"))

\* C4: the step that records a success increments the job's execution_count by
\* exactly 1, sets consecutive_failures to 0, sets last_run to the current time
\* and next_run to a time after it.
SuccessRecorded ==
    [][\A w \in Workers : \A j \in DOMAIN jobs :
          (worker[w].pc = "record_success" /\ worker'[w].pc # "record_success"
           /\ j = worker[w].job)
          => /\ jobs'[j].execution_count = jobs[j].execution_count + 1
             /\ jobs'[j].consecutive_failures = 0
             /\ jobs'[j].last_run = now
             /\ jobs'[j].next_run # None /\ jobs'[j].next_run > now]_vars

\* C5: the step that records a failure increments the job's
\* consecutive_failures by exactly 1, leaves execution_count unchanged, sets
\* last_run to the current time and next_run to a time after it.
FailureRecorded ==
    [][\A w \in Workers : \A j \in DOMAIN jobs :
          (worker[w].pc = "record_failure" /\ worker'[w].pc # "record_failure"
           /\ j = worker[w].job)
          => /\ jobs'[j].consecutive_failures = jobs[j].consecutive_failures + 1
             /\ jobs'[j].execution_count = jobs[j].execution_count
             /\ jobs'[j].last_run = now
             /\ jobs'[j].next_run # None /\ jobs'[j].next_run > now]_vars

\* C6 as stated: after three consecutive failed dispatches of a job no
\* dispatch of it succeeds (the counter is read-only for the API, so nothing
\* resets it).
NoSuccessAfterThreeFailures ==
    \A s \in DOMAIN logs :
        logs[s].status = "success" =>
            ~\E f \in DOMAIN logs :
                /\ f + 2 < s
                /\ \A k \in f .. (f + 2) :
                      /\ logs[k].status = "failed"
                      /\ logs[k].scheduled_job = logs[s].scheduled_job
                /\ \A k \in f .. (s - 1) : logs[k].status # "success"

\* C6, amended: while a job's consecutive_failures is at or above its
\* max_failures, every dispatch that starts against it is rejected at the
\* guard and writes nothing; this lasts until an update raises max_failures
\* above the counter.
ExhaustedJobIsSkipped ==
    [][\A w \in Workers : \A j \in DOMAIN jobs :
          Enters(w, j) /\ jobs[j].consecutive_failures >= jobs[j].max_failures
          => Skipped(w)]_vars

\* C6, witness: a dispatch of an active job with three failed executions and
\* consecutive_failures = max_failures = 3 returned 'skipped'
ExhaustedJobSkipped ==
    \E w \in Workers :
        /\ worker[w].pc = "idle" /\ worker[w].ret = "skipped"
        /\ Exists(worker[w].job)
        /\ LET job == jobs[worker[w].job] IN
              /\ job.is_active /\ job.status = "active"
              /\ job.max_failures = DefaultMaxFailures
              /\ job.consecutive_failures = job.max_failures
        /\ Cardinality(LogsOf(worker[w].job, "failed")) = DefaultMaxFailures

\* worker w commits the result of a dispatch of job j at label pc
Records(w, j, pc) ==
    /\ worker[w].pc = pc /\ worker'[w].pc # pc
    /\ worker[w].job = j

\* C7: execution_count changes only by +1 and only in the step that records a
\* success; consecutive_failures changes only by +1 in the step that records a
\* failure or to 0 in the step that records a success; no step of a pause,
\* resume or update request changes either.
CountersChangeOnlyByDispatch ==
    [][\A j \in DOMAIN jobs \cap DOMAIN jobs' :
          /\ jobs'[j].execution_count # jobs[j].execution_count =>
                /\ jobs'[j].execution_count = jobs[j].execution_count + 1
                /\ \E w \in Workers : Records(w, j, "record_success")
          /\ jobs'[j].consecutive_failures # jobs[j].consecutive_failures =>
                \/ /\ jobs'[j].consecutive_failures = jobs[j].consecutive_failures + 1
                   /\ \E w \in Workers : Records(w, j, "record_failure")
                \/ /\ jobs'[j].consecutive_failures = 0
                   /\ \E w \in Workers : Records(w, j, "record_success")]_vars

\* C8: a create request persists its job only when the user's count of jobs
\* with is_active and status 'active' is below the user's ceiling.
CreateWithinQuota ==
    [][\A c \in Clients :
          client[c].pc = "create_save" /\ client'[c].pc # "create_save"
          => active_jobs_count(client[c].user) < max_jobs(client[c].user)]_vars

\* C9: when no request is being handled, a user's cached active-job count is
\* absent or equals the user's true count.
CacheFresh ==
    ClientsIdle =>
        \A u \in Users : cache[u] = None \/ cache[u] = active_jobs_count(u)

Arrives(c, op, j) ==
    /\ client[c].pc = "idle"
    /\ client'[c] # client[c]
    /\ client'[c].op = op /\ client'[c].job = j

\* handler c takes the step at label pc of a request of kind op for job j
Takes(c, op, j, pc) ==
    /\ client[c].pc = pc /\ client[c].op = op /\ client[c].job = j
    /\ client'[c] # client[c]

\* C11: a pause request by the owner of a job with is_active and status
\* 'active' is admitted, and its save leaves the job with status 'paused' and
\* is_active false.
PauseTakesEffect ==
    [][\A c \in Clients : \A j \in DOMAIN jobs :
          /\ (/\ Arrives(c, "pause", j)
              /\ jobs[j].user = client'[c].user
              /\ jobs[j].is_active /\ jobs[j].status = "active")
             => client'[c].pc = "get_object"
          /\ Takes(c, "pause", j, "save")
             => ~jobs'[j].is_active /\ jobs'[j].status = "paused"]_vars

\* C12: a resume request by the owner of a job with status 'paused' and
\* is_active false is admitted, finds the job, and its save leaves the job with
\* status 'active' and is_active true.
ResumeTakesEffect ==
    [][\A c \in Clients : \A j \in DOMAIN jobs :
          /\ (/\ Takes(c, "resume", j, "get_object")
              /\ jobs[j].user = client[c].user
              /\ ~jobs[j].is_active /\ jobs[j].status = "paused")
             => client'[c].pc = "save"
          /\ Takes(c, "resume", j, "save")
             => jobs'[j].is_active /\ jobs'[j].status = "active"]_vars

\* the lifecycle states of a job: active, paused, inactive
LifecycleState(job) ==
    \/ job.is_active /\ job.status = "active"
    \/ ~job.is_active /\ job.status = "paused"
    \/ job.status = "inactive"

\* C13: a delete request by the owner of a stored job in any lifecycle state
\* (active, paused or inactive) is admitted, and when the request has run the
\* job row is gone.
DeleteRemoves ==
    [][\A c \in Clients :
          /\ \A j \in DOMAIN jobs :
                (/\ Arrives(c, "destroy", j)
                 /\ jobs[j].user = client'[c].user
                 /\ LifecycleState(jobs[j]))
                => client'[c].pc = "delete_periodic_task"
          /\ client[c].pc = "delete_row" /\ client'[c] # client[c]
             => client[c].job \notin DOMAIN jobs']_vars

\* the create request that handler c is running has stored job j and has not
\* yet registered its handle or rolled back
Creating(c, j) ==
    /\ client[c].op = "create" /\ client[c].job = j
    /\ client[c].pc \in {"create_periodic_task", "link", "rollback"}

\* C14: every job stored by a create request that has completed has a handle;
\* a job without one belongs to a create request still running (which either
\* registers the handle or deletes the job).
NoJobWithoutHandle ==
    \A j \in DOMAIN jobs :
        \/ \E c \in Clients : Creating(c, j)
        \/ /\ jobs[j].celery_task \in DOMAIN ptasks
           /\ ptasks[jobs[j].celery_task].args = j

\* C14, witness: a create request has failed at the registration of the handle,
\* its job was stored and is gone again, and no request is running
CreateRolledBack ==
    /\ ClientsIdle
    /\ \E c \in Clients : client[c].op = "create" /\ client[c].ret = "400"
    /\ \E j \in 1 .. (nextJobId - 1) : j \notin DOMAIN jobs

\* the handle of job j, if the job has one, has enabled = is_active
Mirrors(j) ==
    jobs[j].celery_task \in DOMAIN ptasks =>
        ptasks[jobs[j].celery_task].enabled = jobs[j].is_active

\* handler c completes the synchronization of the handle t of job j without an
\* exception, holding the value v of the job's is_active
Synchronizes(c, j, t, v) ==
    /\ client[c].pc \in {"sync", "link"}
    /\ v = client[c].snap.is_active
    /\ \/ /\ \E op \in {"pause", "resume"} : Takes(c, op, j, "sync")
          /\ t = client[c].snap.celery_task
          /\ client'[c].pc = "invalidate"
       \/ /\ Takes(c, "update", j, "sync")
          /\ t = client[c].snap.celery_task
          /\ client'[c].pc = "idle" /\ client'[c].ret = "200"
       \/ /\ Takes(c, "create", j, "link")
          /\ t = client[c].task
          /\ client'[c].pc = "invalidate"

\* the sync pass run by w completes a round of its loop for job j, whose handle
\* is t, holding the value v of the job's is_active, and no round of the pass
\* has logged an exception
SyncRound(w, j, t, v) ==
    /\ worker[w].todo # <<>> /\ j = NextTodo(w)
    /\ worker'[w] # worker[w]
    /\ v = worker[w].todo[j].is_active
    /\ \/ worker[w].pc = "sync_jobs" /\ t = worker[w].todo[j].celery_task
       \/ worker[w].pc = "sync_link" /\ t = worker[w].job
    /\ worker'[w].pc = "sync_jobs"
    /\ worker'[w].ret # "logged"

HandleFailureIsSwallowed ==
    [][\A c \in Clients, j \in Pks :
          /\ (\E op \in {"pause", "resume"} :
                 Takes(c, op, j, "sync") \/ Takes(c, op, j, "invalidate"))
             => /\ jobs' = jobs
                /\ \/ client'[c].pc = "invalidate"
                   \/ client'[c].pc = "idle" /\ client'[c].ret = "200"
          /\ (Takes(c, "destroy", j, "delete_periodic_task") \/ Takes(c, "destroy", j, "invalidate"))
             => client'[c].pc \in {"invalidate", "delete_row"}
          /\ Takes(c, "destroy", j, "delete_row")
             => /\ j \notin DOMAIN jobs'
                /\ client'[c].pc = "idle" /\ client'[c].ret = "204"]_vars

\* C16, witness: a pause request was answered 200 and its job is paused while
\* the job's handle, whose save raised, is still enabled
PausedWithEnabledHandle ==
    /\ \E c \in Clients :
          client[c].pc = "idle" /\ client[c].op = "pause" /\ client[c].ret = "200"
    /\ \E j \in DOMAIN jobs :
          /\ ~jobs[j].is_active /\ jobs[j].status = "paused"
          /\ jobs[j].celery_task \in DOMAIN ptasks
          /\ ptasks[jobs[j].celery_task].enabled

\* the handle of job j, if the job has one, has the job's schedule and
\* enabled = is_active, in the state a step leads to
HealedNext(j) ==
    jobs'[j].celery_task \in DOMAIN ptasks' =>
        /\ ptasks'[jobs'[j].celery_task].crontab = jobs'[j].cron_expression
        /\ ptasks'[jobs'[j].celery_task].enabled = jobs'[j].is_active

\* C17: when a sync pass, run while no request is being handled, returns
\* 'success' and none of its rounds has logged an exception, every job that
\* has a handle has the handle's schedule equal to its cron expression and the
\* handle's enabled flag equal to its is_active.
SyncHealsDrift ==
    [][\A w \in Workers :
          /\ worker[w].pc = "sync_jobs" /\ worker[w].todo = <<>>
          /\ worker[w].ret # "logged"
          /\ worker'[w].pc = "idle" /\ worker'[w].ret = "success"
          => \A j \in DOMAIN jobs' : HealedNext(j)]_vars

\* C18: the handle synchronization of an update request answers 200 only when
\* it has written the job's schedule and is_active to the handle; when it
\* raises, the answer is the validation error (400) and the handle is left as
\* it was; in both cases the job row stays as the request saved it, with the
\* updated field value.
UpdateFailureSurfaced ==
    [][\A c \in Clients, j \in Pks :
          Takes(c, "update", j, "sync") /\ client'[c].pc = "idle"
          => /\ jobs' = jobs
             /\ j \in DOMAIN jobs => ApplyPatch(jobs'[j], client[c].patch) = jobs'[j]
             /\ LET t == client[c].snap.celery_task IN
                \/ /\ client'[c].ret = "200"
                   /\ t \in DOMAIN ptasks'
                   /\ ptasks'[t].crontab = client[c].snap.cron_expression
                   /\ ptasks'[t].enabled = client[c].snap.is_active
                \/ /\ client'[c].ret = "400"
                   /\ ptasks' = ptasks]_vars

\* C18, witness: an update request that changed the cron expression was
\* answered 400; the job has the new expression, its handle the old one
UpdateFailedJobUpdated ==
    /\ \E c \in Clients :
          client[c].pc = "idle" /\ client[c].op = "update" /\ client[c].ret = "400"
    /\ \E j \in DOMAIN jobs :
          /\ jobs[j].cron_expression = OtherCron
          /\ jobs[j].celery_task \in DOMAIN ptasks
          /\ ptasks[jobs[j].celery_task].crontab = StoredCron

\* handle t of job j has the schedule and the enabled flag of the instance
Mirrored(t, instance) ==
    /\ ptasks[t].crontab = instance.cron_expression
    /\ ptasks[t].enabled = instance.is_active

\* a step that leaves the handles and the jobs' references to them as they are;
\* the handle rows themselves too when unchanged is true
HandlesKept(unchanged) ==
    /\ DOMAIN ptasks' = DOMAIN ptasks
    /\ nextTaskId' = nextTaskId
    /\ \A k \in DOMAIN jobs : k \in DOMAIN jobs' /\ jobs'[k].celery_task = jobs[k].celery_task
    /\ unchanged => ptasks' = ptasks

\* C19: a call of update_periodic_task for a job that has a handle, by an
\* update request or by a round of a sync pass, creates no handle and leaves
\* the handle id of every job as it was; called for a job whose handle already
\* has the job's cron expression and is_active, as after a first call, it
\* changes nothing.
UpdateIsIdempotent ==
    [][/\ \A c \in Clients, j \in Pks :
             Takes(c, "update", j, "sync") /\ client[c].snap.celery_task \in DOMAIN ptasks
             => HandlesKept(Mirrored(client[c].snap.celery_task, client[c].snap))
       /\ \A w \in Workers :
             /\ worker[w].pc = "sync_jobs" /\ worker[w].todo # <<>>
             /\ worker'[w] # worker[w]
             /\ worker[w].todo[NextTodo(w)].celery_task \in DOMAIN ptasks
             => HandlesKept(Mirrored(worker[w].todo[NextTodo(w)].celery_task,
                                     worker[w].todo[NextTodo(w)]))]_vars

\* C19, witness: an update request has changed the cron expression of a job
\* (200) and a sync pass has then called update_periodic_task for it again;
\* the job has the one handle it was created with, carrying the new schedule
UpdatedTwiceOneHandle ==
    /\ \E c \in Clients :
          client[c].pc = "idle" /\ client[c].op = "update" /\ client[c].ret = "200"
    /\ \E w \in Workers : worker[w].pc = "idle" /\ worker[w].ret = "success"
    /\ nextTaskId = 2
    /\ \E j \in DOMAIN jobs :
          /\ jobs[j].celery_task = 1 /\ DOMAIN ptasks = {1}
          /\ jobs[j].cron_expression = OtherCron
          /\ ptasks[1].crontab = OtherCron

\* C20: the release of the handle of job j by a delete request
\* (CeleryTaskService.delete_periodic_task) changes nothing and raises nothing
\* when the job has no handle; when it deletes the handle, the job row remains
\* and its reference to the handle is cleared.
ReleaseKeepsJob ==
    [][\A c \in Clients, j \in Pks :
          Takes(c, "destroy", j, "delete_periodic_task")
          => LET t == client[c].snap.celery_task IN
             /\ t = None
                => jobs' = jobs /\ ptasks' = ptasks /\ client'[c].pc = "invalidate"
             /\ t \in DOMAIN ptasks /\ t \notin DOMAIN ptasks'
                => j \in DOMAIN jobs' /\ jobs'[j].celery_task = None]_vars

\* the handles that run the dispatch task and that no existing job references
Orphans ==
    {t \in DOMAIN ptasks :
        ptasks[t].task = DispatchTask /\ ~\E j \in DOMAIN jobs : jobs[j].celery_task = t}

\* C21: a cleanup_orphaned_tasks that completes removes exactly the handles
\* that run the dispatch task and are referenced by no existing job: every
\* other handle, and every job, is left as it was, and afterwards no handle of
\* the dispatch task is without a job.
CleanupRemovesExactlyOrphans ==
    [][\A w \in Workers :
          /\ worker[w].pc = "sync_jobs" /\ worker[w].todo = <<>>
          /\ worker'[w].pc = "idle" /\ worker'[w].ret = "success"
          => /\ DOMAIN ptasks' = DOMAIN ptasks \ Orphans
             /\ \A t \in DOMAIN ptasks' : ptasks'[t] = ptasks[t]
             /\ jobs' = jobs
             /\ \A t \in DOMAIN ptasks' :
                   ptasks'[t].task = DispatchTask
                   => \E j \in DOMAIN jobs' : jobs'[j].celery_task = t]_vars

\* C21, witness: a cleanup has removed an orphan; a job with its handle and
\* the PeriodicTask of another task are still there
OrphanRemoved ==
    /\ \E w \in Workers :
          worker[w].pc = "idle" /\ worker[w].ret = "success" /\ worker[w].count >= 1
    /\ \E t \in DOMAIN ptasks : ptasks[t].task # DispatchTask
    /\ \E j \in DOMAIN jobs : jobs[j].celery_task \in DOMAIN ptasks

\* C22: when the task function of a dispatch has raised, the step that marks
\* the execution log sets its status to failed and stores the error message,
\* and the step that records the failure increments the job's
\* consecutive_failures by 1 and makes the task return the result 'failed'.
FailureCaptured ==
    [][\A w \in Workers :
          /\ (/\ worker[w].pc = "save_failed" /\ worker'[w] # worker[w]
              /\ worker[w].log \in DOMAIN logs)
             => /\ logs'[worker[w].log].status = "failed"
                /\ logs'[worker[w].log].error_message = RaisedError
          /\ (/\ worker[w].pc = "record_failure" /\ worker'[w] # worker[w]
              /\ worker[w].job \in DOMAIN jobs)
             => /\ jobs'[worker[w].job].consecutive_failures
                      = jobs[worker[w].job].consecutive_failures + 1
                /\ worker'[w].pc = "idle" /\ worker'[w].ret = "failed"]_vars

\* the changes of status an execution log may take in one step
LogTransitions ==
    {<<"pending", "running">>, <<"running", "success">>, <<"running", "failed">>}

DurationConsistent ==
    \A l \in DOMAIN logs :
        logs[l].duration # None
        => /\ logs[l].started_at # None
           /\ logs[l].completed_at # None
           /\ logs[l].duration = logs[l].completed_at - logs[l].started_at

\* C25: the parameters of every stored job contain every required active
\* parameter of the job's task definition, and every parameter the definition
\* declares and the job has passes validate_parameter_type for its type.
ParametersValid ==
    \A j \in DOMAIN jobs :
        LET task_params == get_parameters(jobs[j].task_definition) IN
        \A i \in DOMAIN task_params :
            LET name == task_params[i].parameter_name IN
            /\ task_params[i].is_required => name \in DOMAIN jobs[j].parameters
            /\ name \in DOMAIN jobs[j].parameters
               => validate_parameter_type(jobs[j].parameters[name],
                                          task_params[i].parameter_type)

\* the parameters of the task definition td that the object params violates:
\* required and missing, or present with a value that fails the declared type
Offending(td, params) ==
    {param.parameter_name : param \in
        {x \in {taskparameter_set(td)[i] : i \in DOMAIN taskparameter_set(td)} :
            /\ x.is_active
            /\ \/ x.is_required /\ x.parameter_name \notin DOMAIN params
               \/ /\ x.parameter_name \in DOMAIN params
                  /\ ~validate_parameter_type(params[x.parameter_name], x.parameter_type)}}

\* the parameters object the validation of the data looks at
Given(data) == IF "parameters" \in data.fields THEN data.parameters ELSE <<>>

\* C26: a create request that passes the permission check is accepted when no
\* parameter of its task definition is violated; otherwise it is answered 400
\* and the errors name exactly the violated parameters, all of them, each as
\* missing or as having an invalid type.
ValidationListsAllViolations ==
    [][\A c \in Clients :
          /\ client[c].pc = "idle" /\ client'[c] # client[c]
          /\ client'[c].op = "create" /\ client'[c].ret # "403"
          /\ client'[c].data # NoData
          => LET data == client'[c].data
                 errors == client'[c].errors
                 offending == Offending(data.task_definition, Given(data)) IN
             IF offending = {}
             THEN client'[c].pc = "perform_create" /\ errors = <<>>
             ELSE /\ client'[c].pc = "idle" /\ client'[c].ret = "400"
                  /\ {errors[i].parameter : i \in DOMAIN errors} = offending
                  /\ Len(errors) = Cardinality(offending)
                  /\ \A i \in DOMAIN errors :
                        errors[i].error = "is missing"
                        <=> errors[i].parameter \notin DOMAIN Given(data)]_vars

\* C26, witness: a create request for 'send_email' that gave no
\* recipient_email and a subject that is no string was answered 400 with both
\* parameters in the errors
TwoViolationsListed ==
    \E c \in Clients :
        /\ client[c].pc = "idle" /\ client[c].op = "create" /\ client[c].ret = "400"
        /\ client[c].errors = <<Missing("recipient_email"), InvalidType("subject")>>

\* the requests that gave a cron expression and were answered by the
\* validation, or passed it
GaveCron(c) ==
    /\ client[c].op \in {"create", "update"}
    /\ "cron_expression" \in client[c].data.fields
    /\ client[c].ret = "400" \/ client[c].pc \in {"perform_create", "save"}

\* an expression croniter takes whose two nearest fire times are less than 60
\* seconds apart at whatever second the check runs
FiresTooOften(value) ==
    /\ value # <<>>
    /\ croniter(value, FALSE)
    /\ \A sec \in 0..59 : time_diff(value, sec) < 60

\* C30: a request that gives a cron expression whose two nearest fire times are
\* less than 60 seconds apart is answered 400 with the error CronTooFrequent
\* among its errors.
TooFrequentReported ==
    \A c \in Clients :
        GaveCron(c) /\ FiresTooOften(client[c].data.cron_expression)
        => /\ client[c].ret = "400"
           /\ \E i \in DOMAIN client[c].errors : client[c].errors[i] = CronTooFrequent

\* the declared ranges of the five fields, and the names of the fields
Declared == <<[lo |-> 0, hi |-> 59, name |-> "minute"], [lo |-> 0, hi |-> 23, name |-> "hour"],
              [lo |-> 1, hi |-> 31, name |-> "day"], [lo |-> 1, hi |-> 12, name |-> "month"],
              [lo |-> 0, hi |-> 6, name |-> "day_of_week"]>>

\* a field with an integer outside its range, a range a-b with a > b, or a
\* step that is not positive
Offends(field, lo, hi) ==
    LET items == split(field, ",") IN
    \E k \in DOMAIN items :
        LET parts == split(items[k], "/")
            ends == split(parts[1], "-") IN
        \/ \E n \in DOMAIN ends : isdigit(ends[n]) /\ (int(ends[n]) < lo \/ int(ends[n]) > hi)
        \/ Len(ends) = 2 /\ isdigit(ends[1]) /\ isdigit(ends[2]) /\ int(ends[1]) > int(ends[2])
        \/ Len(parts) = 2 /\ isdigit(parts[2]) /\ int(parts[2]) <= 0
OffendingFields(value) ==
    {Declared[i].name : i \in {i \in DOMAIN value : Offends(value[i], Declared[i].lo,
                                                          Declared[i].hi)}}

\* C28: a request whose cron expression does not have exactly 5 fields is
\* answered 400; one whose expression has a field outside its range, a range
\* a-b with a > b or a step <= 0 is answered 400 with an error that names an
\* offending field.
InvalidCronNamesField ==
    \A c \in Clients :
        GaveCron(c)
        => LET value == client[c].data.cron_expression
               errors == client[c].errors IN
           /\ Len(value) # 5 => client[c].ret = "400"
           /\ Len(value) = 5 /\ OffendingFields(value) # {}
              => /\ client[c].ret = "400"
                 /\ \E i \in DOMAIN errors : errors[i].field \in OffendingFields(value)

\* C28, the part that holds: every such expression is answered 400
InvalidCronRejected ==
    \A c \in Clients :
        GaveCron(c)
        => LET value == client[c].data.cron_expression IN
           Len(value) # 5 \/ OffendingFields(value) # {} => client[c].ret = "400"

\* the forms of a field: '*', an integer of the range, a comma list of
\* integers of the range, a range a-b of the range with a <= b, and a step
\* base/step with step > 0 whose base is '*' or an integer (of the range when
\* baseInRange)
InRange(text, lo, hi) == isdigit(text) /\ int(text) >= lo /\ int(text) <= hi
HasForm(field, lo, hi, baseInRange) ==
    \/ field = <<"*">>
    \/ LET items == split(field, ",") IN
       \A k \in DOMAIN items : InRange(items[k], lo, hi)
    \/ LET ends == split(field, "-") IN
       /\ Len(ends) = 2 /\ InRange(ends[1], lo, hi) /\ InRange(ends[2], lo, hi)
       /\ int(ends[1]) <= int(ends[2])
    \/ LET parts == split(field, "/") IN
       /\ Len(parts) = 2 /\ isdigit(parts[2]) /\ int(parts[2]) > 0
       /\ \/ parts[1] = <<"*">>
          \/ IF baseInRange THEN InRange(parts[1], lo, hi) ELSE isdigit(parts[1])
WellFormed(value, baseInRange) ==
    /\ Len(value) = 5
    /\ \A i \in DOMAIN value : HasForm(value[i], Declared[i].lo, Declared[i].hi, baseInRange)

\* a day of the month, given as one integer, that the month, given as one
\* integer, does not have: beyond 29 in February, beyond 30 in the months 4,
\* 6, 9 and 11
DayBeyondMonth(value) ==
    /\ isdigit(value[3]) /\ isdigit(value[4])
    /\ \/ value[4] = <<"2">> /\ int(value[3]) > 29
       \/ value[4] \in {<<"4">>, <<"6">>, <<"9">>, <<"1", "1">>} /\ int(value[3]) > 30

\* C29 as stated: a request whose cron expression has 5 fields, each '*', an
\* in-range integer, a comma list of in-range integers, an in-range range a-b
\* with a <= b or a step base/step with step > 0, passes the validation.
WellFormedCronAccepted ==
    \A c \in Clients :
        GaveCron(c) /\ WellFormed(client[c].data.cron_expression, FALSE)
        => client[c].ret # "400"

\* C29, amended: such an expression passes the validation when the base of
\* every step is '*' or an integer of the field's range and the day is not an
\* integer beyond the length of the month.
WellFormedCronOfTheCalendarAccepted ==
    \A c \in Clients :
        /\ GaveCron(c) /\ WellFormed(client[c].data.cron_expression, TRUE)
        /\ ~DayBeyondMonth(client[c].data.cron_expression)
        => client[c].ret # "400" /\ client[c].errors = <<>>

\* C29, witness: the create request with "0 9 31 1 *", day 31 of a month
\* that has it, passed the validation
LastDayOfJanuaryAccepted ==
    \E c \in Clients :
        /\ GaveCron(c) /\ client[c].pc = "perform_create"
        /\ client[c].data.cron_expression =
              [StoredCron EXCEPT ![3] = <<"3", "1">>, ![4] = <<"1">>]

\* C27: the cron_expression of every stored job passes validate_cron_expression
\* and the frequency check, and its two nearest fire times are at least 60
\* seconds apart, whichever second the check runs at.
PersistedCronValid ==
    \A j \in DOMAIN jobs :
        LET value == jobs[j].cron_expression IN
        \A lenient \in BOOLEAN, sec \in 0..59 :
            /\ validate_cron_expression(value, lenient) = NoCronError
            /\ validate_cron_frequency(value, lenient, sec) = NoCronError
            /\ time_diff(value, sec) >= 60

\* C27, witness: a job whose expression an update changed to "0 10 * * *"
\* keeps it after an update request with an expression the validation rejects
RejectedUpdateKeepsCron ==
    \E c \in Clients :
        /\ client[c].pc = "idle" /\ client[c].op = "update" /\ client[c].ret = "400"
        /\ client[c].job \in DOMAIN jobs
        /\ jobs[client[c].job].cron_expression = OtherCron
        /\ client[c].data.cron_expression = [OtherCron EXCEPT ![2] = <<"2", "5">>]

\* worker w leaves execute_scheduled_job holding an execution log: the task
\* returns, or the call inside execute_job_immediately does
ReturnsWithLog(w) ==
    /\ worker[w].log # None
    /\ worker'[w].log = None

\* C31: an execution log is created only by a dispatch that has passed the
\* guard, one log for the job of that dispatch, in status pending; and when
\* the dispatch returns, the log it created is stored in status success or
\* failed, the status the dispatch returns.
DispatchLeavesOneTerminalLog ==
    [][/\ \A l \in DOMAIN logs' \ DOMAIN logs :
             /\ DOMAIN logs' = DOMAIN logs \cup {l}
             /\ \E w \in Workers :
                   /\ worker[w].pc = "create_log" /\ worker[w].log = None
                   /\ worker'[w].pc = "mark_started" /\ worker'[w].log = l
                   /\ logs'[l].scheduled_job = worker[w].job
                   /\ logs'[l].status = "pending"
       /\ \A w \in Workers :
             /\ worker[w].pc = "create_log" /\ worker'[w] # worker[w]
                => Cardinality(DOMAIN logs' \ DOMAIN logs) = 1
             /\ ReturnsWithLog(w)
                => /\ worker[w].log \in DOMAIN logs'
                   /\ logs'[worker[w].log].status \in {"success", "failed"}
                   /\ logs'[worker[w].log].status = worker'[w].ret
                   /\ logs'[worker[w].log].scheduled_job = worker[w].job]_vars

\* C31, witness: two dispatches of one job have returned, the last of them
\* with success, and the job has exactly one log in status failed and one in
\* status success
TwoDispatchesTwoLogs ==
    \E w \in Workers :
        /\ worker[w].pc = "idle" /\ worker[w].ret = "success"
        /\ worker[w].job \in DOMAIN jobs
        /\ Cardinality(LogsOf(worker[w].job, "failed")) = 1
        /\ Cardinality(LogsOf(worker[w].job, "success")) = 1
        /\ Cardinality(DOMAIN logs) = 2

\* C32: the step that takes an execution log to status running stores, as the
\* log's celery_task_id, the id of the task the runner gave the worker; for an
\* execute-now dispatch this is the task id the request returned.
StartedLogHasTaskId ==
    [][\A w \in Workers :
          /\ worker[w].pc = "mark_started" /\ worker'[w] # worker[w]
          /\ worker[w].log \in DOMAIN logs'
          => /\ logs'[worker[w].log].status = "running"
             /\ logs'[worker[w].log].celery_task_id = worker[w].task_id
             /\ worker[w].imm => logs'[worker[w].log].celery_task_id = NowTaskId]_vars

\* the fields of a job that its owner sets, and the handle link
OwnerFields(job) ==
    [is_active |-> job.is_active, status |-> job.status,
     cron_expression |-> job.cron_expression, parameters |-> job.parameters,
     max_executions |-> job.max_executions, max_failures |-> job.max_failures,
     celery_task |-> job.celery_task]

\* the labels of execute_scheduled_job
DispatchLabels ==
    {"create_log", "mark_started", "run_task", "mark_completed", "save_completed",
     "record_success", "mark_failed", "save_failed", "record_failure"}

\* C33: no step of execute_scheduled_job (the guard, the log, the task
\* function, the record of a success or of a failure) changes is_active,
\* status, cron_expression, parameters, max_executions, max_failures or the
\* handle link of a stored job, whatever requests have committed meanwhile.
DispatchKeepsOwnerFields ==
    [][\A w \in Workers :
          /\ worker'[w] # worker[w]
          /\ \/ worker[w].pc \in DispatchLabels
             \/ worker[w].pc = "idle" /\ worker'[w].task_id = BeatTaskId
             \/ worker[w].pc = "idle" /\ worker'[w].ret \in {"skipped", "error"}
          => \A j \in DOMAIN jobs \cap DOMAIN jobs' :
                OwnerFields(jobs'[j]) = OwnerFields(jobs[j])]_vars

\* C33, witness: the dispatch recorded its success on a job that a pause
\* request had paused after the guard: the job is paused and counts one
\* execution
SuccessRecordedOnPausedJob ==
    \E w \in Workers :
        /\ worker[w].pc = "idle" /\ worker[w].ret = "success"
        /\ worker[w].job \in DOMAIN jobs
        /\ LET job == jobs[worker[w].job] IN
              /\ ~job.is_active /\ job.status = "paused"
              /\ job.execution_count = 1 /\ job.last_run # None
        /\ \E c \in Clients : client[c].op = "pause" /\ client[c].pc # "idle"

\* C34: a job with max_executions = N has at most N execution logs in status
\* success, and its execution_count is at most N.
SuccessesWithinMaxExecutions ==
    \A j \in DOMAIN jobs :
        Truthy(jobs[j].max_executions)
        => /\ Cardinality(LogsOf(j, "success")) <= jobs[j].max_executions
           /\ jobs[j].execution_count <= jobs[j].max_executions

CustomRun(w) == worker[w].pc = "save_params" \/ worker[w].orig # NoParams

RunRestoresParameters ==
    [][\A w \in Workers :
          /\ worker[w].pc # "idle" /\ worker[w].imm /\ CustomRun(w)
          /\ worker'[w].pc = "idle"
          /\ worker[w].job \in DOMAIN jobs'
          => jobs'[worker[w].job].parameters = worker[w].outer.parameters]_vars

\* an execute-now run with custom parameters has returned failed, and the job
\* has the parameters the run saved back
FailedRunRestored ==
    \E w \in Workers :
        /\ worker[w].pc = "idle" /\ worker[w].imm /\ worker[w].orig # NoParams
        /\ worker[w].ret = "failed"
        /\ Exists(worker[w].job)
        /\ jobs[worker[w].job].parameters = worker[w].orig
        /\ update(worker[w].orig, CustomParams) # worker[w].orig

\* C37: the task function of a scheduled dispatch (a run of
\* execute_scheduled_job sent by the beat scheduler) is never invoked with the
\* custom parameters of an execute-now request
InvokedBy(w) == worker[w].pc \in {"mark_completed", "mark_failed"}

ScheduledDispatchWithoutCustomParams ==
    \A w \in Workers :
        (InvokedBy(w) /\ ~worker[w].imm)
            => update(worker[w].snap.parameters, CustomParams) # worker[w].snap.parameters

\* C38: every stored job has is_active true exactly when its status is 'active'
ActiveFlagMatchesStatus ==
    \A j \in DOMAIN jobs : jobs[j].is_active <=> (jobs[j].status = "active")

\* C39: with the requests of a regular user handled one at a time, the user
\* never has more than MAX_JOBS_NORMAL_USER jobs with is_active and status
\* 'active'
ActiveJobsWithinQuota ==
    \A u \in Users : ~is_superuser(u) => active_jobs_count(u) <= MAX_JOBS_NORMAL_USER

\* C40: a pass of cleanup_orphaned_tasks never deletes the PeriodicTask that a
\* create request has created and not yet linked to its job
CleanupSparesCreatedHandle ==
    [][\A c \in Clients :
          (client[c].pc = "link" /\ client[c].op = "create" /\ client[c].task \in DOMAIN ptasks)
              => client[c].task \in DOMAIN ptasks']_vars

====
